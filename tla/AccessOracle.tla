---------------------------- MODULE AccessOracle ----------------------------
(* What the daemon promises about superuser requests, without caches, locks *)
(* or databases: decisions are made about a uid, a decision is final, and   *)
(* whoever asks is told, once, a decision about its own uid.                *)
EXTENDS Integers

CONSTANTS Threads,   \* those who ask
          Uids,      \* whom they ask for
          Decisions  \* names of the decisions

NoUid == -1

VARIABLES
    asks,      \* the uid each thread asks for, NoUid before it asks
    decision,  \* uid and outcome of each decision, uid = NoUid when not made
    told       \* what each thread was told

vars == <<asks, decision, told>>

Undecided == [uid |-> NoUid, allow |-> FALSE]

Init ==
    /\ asks = [t \in Threads |-> NoUid]
    /\ decision = [d \in Decisions |-> Undecided]
    /\ told = [t \in Threads |-> "none"]

Ask(t, u) ==
    /\ asks[t] = NoUid
    /\ asks' = [asks EXCEPT ![t] = u]
    /\ UNCHANGED <<decision, told>>

Decide(d, u, allow) ==
    /\ decision[d] = Undecided
    /\ decision' = [decision EXCEPT ![d] = [uid |-> u, allow |-> allow]]
    /\ UNCHANGED <<asks, told>>

Tell(t, d) ==
    /\ told[t] = "none"
    /\ decision[d] # Undecided
    /\ decision[d].uid = asks[t]
    /\ told' = [told EXCEPT ![t] = IF decision[d].allow THEN "granted" ELSE "denied"]
    /\ UNCHANGED <<asks, decision>>

Next ==
    \/ \E t \in Threads, u \in Uids : Ask(t, u)
    \/ \E d \in Decisions, u \in Uids, allow \in BOOLEAN : Decide(d, u, allow)
    \/ \E t \in Threads, d \in Decisions : Tell(t, d)

Spec == Init /\ [][Next]_vars
=============================================================================
