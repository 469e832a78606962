------------------------- MODULE DaemonSocketProofs -------------------------
(* Proofs about DaemonSocket for any number of clients, whatever they are   *)
(* and ask, and however often the daemon dies.                              *)
EXTENDS DaemonSocket, TLAPS

(***************************************************************************)
(* The inductive invariant.                                                *)
(***************************************************************************)

\* The accept loop is with a client from accept to close.
LoopInv == loop = "accept" <=> current = nobody

\* A thread is started only for what the accept loop does not answer itself.
ThreadInv == \A c \in threads : req[c] \notin Inline

\* A client that may ask what it asks, and waits for a string.
Expects(c) == kind[c] # "stranger" /\ Permitted(kind[c], req[c]) /\ ReadsString(req[c])

\* As long as the daemon lives such a client is written nothing but a string,
\* and once it is connected somebody has it in hand until then.
AnswerInv ==
    /\ \A c \in Clients : cli[c] = "garbled" => ReadsString(req[c])
    /\ deaths = 0 => \A c \in Clients : Expects(c) =>
            /\ reply[c] \in {"none", "string"} /\ cli[c] # "garbled"
            /\ cli[c] \in {"connected", "sent"} => Served(c) \/ reply[c] = "string"

IInv == TypeOK /\ LoopInv /\ ThreadInv /\ AnswerInv

(***************************************************************************)
(* The queue.                                                              *)
(***************************************************************************)

Waiting(c) == \E i \in 1 .. Len(queue) : queue[i] = c

\* A client that connects is behind the ones that wait.
LEMMA Queued ==
    ASSUME NEW c \in Clients, queue \in Seq(Clients), queue' = Append(queue, c)
    PROVE  /\ queue' \in Seq(Clients) /\ Waiting(c)'
           /\ \A d \in Clients : Waiting(d) => Waiting(d)'
<1>1. queue' \in Seq(Clients) /\ Len(queue') = Len(queue) + 1 /\ Len(queue) \in Nat
  OBVIOUS
<1>2. queue'[Len(queue) + 1] = c /\ \A i \in 1 .. Len(queue) : queue'[i] = queue[i]
  OBVIOUS
<1>. QED  BY <1>1, <1>2 DEF Waiting

\* accept takes the first one and leaves the others.
LEMMA Accepted ==
    ASSUME queue \in Seq(Clients), queue # <<>>, queue' = Tail(queue)
    PROVE  /\ queue' \in Seq(Clients) /\ Head(queue) \in Clients
           /\ \A d \in Clients : Waiting(d) => d = Head(queue) \/ Waiting(d)'
<1>1. /\ queue' \in Seq(Clients) /\ Len(queue') = Len(queue) - 1 /\ Len(queue) \in Nat
      /\ Head(queue) = queue[1] /\ Head(queue) \in Clients
  OBVIOUS
<1>2. \A i \in 1 .. Len(queue') : queue'[i] = queue[i + 1]
  OBVIOUS
<1>3. ASSUME NEW d \in Clients, NEW i \in 1 .. Len(queue), queue[i] = d, i # 1
      PROVE  Waiting(d)'
  <2>1. i - 1 \in 1 .. Len(queue') /\ queue'[i - 1] = queue[(i - 1) + 1] /\ (i - 1) + 1 = i
    BY <1>1, <1>2, <1>3
  <2>. QED  BY <2>1, <1>3 DEF Waiting
<1>. QED  BY <1>1, <1>3 DEF Waiting

(***************************************************************************)
(* The steps.                                                              *)
(***************************************************************************)

\* Each action preserves the types.
LEMMA TypeStep == TypeOK /\ LoopInv /\ [Next]_vars => TypeOK'
<1>. SUFFICES ASSUME TypeOK, LoopInv, [Next]_vars
              PROVE  TypeOK'
  OBVIOUS
<1>. USE ClientsAssumption DEF TypeOK, ClientStates, ProcStates, Answers
<1>1. ASSUME NEW c \in Clients, Connect(c)
      PROVE  TypeOK'
  BY <1>1, Queued DEF Connect
<1>2. ASSUME NEW c \in Clients, Retry(c)
      PROVE  TypeOK'
  BY <1>2, Queued DEF Retry
<1>3. ASSUME NEW c \in Clients, Send(c) \/ HangUp(c) \/ ReadReply(c)
      PROVE  TypeOK'
  BY <1>3 DEF Send, HangUp, ReadReply, server
<1>4. ASSUME NEW c \in Clients, Bind(c) \/ Listen(c)
      PROVE  TypeOK'
  BY <1>4 DEF Bind, Listen, server
<1>5. ASSUME Accept
      PROVE  TypeOK'
  BY <1>5, Accepted DEF Accept
<1>6. ASSUME Verify
      PROVE  TypeOK'
  BY <1>6 DEF Verify, Close
<1>7. ASSUME ReadCode
      PROVE  TypeOK'
  <2>1. current \in Clients
    BY <1>7 DEF ReadCode, LoopInv
  <2>2. \A r : InlineAnswer(r) \in Answers
    BY DEF InlineAnswer
  <2>3. threads' \subseteq Clients /\ reply' \in [Clients -> Answers]
    BY <1>7, <2>1, <2>2 DEF ReadCode, Dispatch
  <2>4. current' = nobody /\ loop' = "accept"
    BY <1>7 DEF ReadCode, Dispatch, Close
  <2>. QED  BY <1>7, <2>3, <2>4 DEF ReadCode
<1>8. ASSUME NEW c \in Clients, Handle(c)
      PROVE  TypeOK'
  BY <1>8 DEF Handle, HandlerAnswer
<1>9. ASSUME DaemonDies
      PROVE  TypeOK'
  <2>1. deaths' \in 0 .. MaxDeaths
    BY <1>9 DEF DaemonDies
  <2>. QED  BY <1>9, <2>1 DEF DaemonDies
<1>10. ASSUME UNCHANGED vars
       PROVE  TypeOK'
  BY <1>10 DEF vars
<1>. QED  BY <1>1, <1>2, <1>3, <1>4, <1>5, <1>6, <1>7, <1>8, <1>9, <1>10 DEF Next

\* Each action preserves LoopInv.
LEMMA LoopStep == TypeOK /\ LoopInv /\ [Next]_vars => LoopInv'
<1>. SUFFICES ASSUME TypeOK, LoopInv, [Next]_vars
              PROVE  LoopInv'
  OBVIOUS
<1>. USE ClientsAssumption DEF TypeOK, LoopInv
<1>1. ASSUME NEW c \in Clients,
             \/ Connect(c) \/ Retry(c) \/ Send(c) \/ HangUp(c) \/ ReadReply(c)
             \/ Bind(c) \/ Listen(c) \/ Handle(c)
      PROVE  LoopInv'
  BY <1>1 DEF Connect, Retry, Send, HangUp, ReadReply, Bind, Listen, Handle, server
<1>2. ASSUME Accept
      PROVE  LoopInv'
  <2>1. Head(queue) \in Clients
    BY <1>2, Accepted DEF Accept
  <2>. QED  BY <1>2, <2>1 DEF Accept
<1>3. ASSUME Verify \/ ReadCode
      PROVE  LoopInv'
  BY <1>3 DEF Verify, ReadCode, Dispatch, Close
<1>4. ASSUME DaemonDies
      PROVE  LoopInv'
  BY <1>4 DEF DaemonDies
<1>5. ASSUME UNCHANGED vars
      PROVE  LoopInv'
  BY <1>5 DEF vars
<1>. QED  BY <1>1, <1>2, <1>3, <1>4, <1>5 DEF Next

\* Each action preserves ThreadInv.
LEMMA ThreadStep == ThreadInv /\ [Next]_vars => ThreadInv'
<1>. SUFFICES ASSUME ThreadInv, [Next]_vars
              PROVE  ThreadInv'
  OBVIOUS
<1>1. req' = req
  BY DEF Next, vars, Accept, Verify, ReadCode, DaemonDies, Connect, Retry, Send, HangUp,
         ReadReply, Bind, Listen, Handle
<1>2. CASE ReadCode
  BY <1>1, <1>2 DEF ThreadInv, ReadCode, Dispatch
<1>3. CASE threads' \subseteq threads
  BY <1>1, <1>3 DEF ThreadInv
<1>. QED  BY <1>2, <1>3 DEF Next, vars, server, Accept, Verify, DaemonDies, Connect, Retry, Send,
              HangUp, ReadReply, Bind, Listen, Handle

\* The steps that take no client out of anybody's hands and write nothing.
LEMMA AnswerKept ==
    ASSUME TypeOK, AnswerInv, UNCHANGED <<kind, req, deaths, reply>>,
           \A c \in Clients : Served(c) => Served(c)',
           \A c \in Clients : cli'[c] = "garbled" => cli[c] = "garbled",
           \A c \in Clients : cli'[c] \in {"connected", "sent"} =>
               cli[c] \in {"connected", "sent"} \/ Served(c)'
    PROVE  AnswerInv'
<1>1. \A c \in Clients : Expects(c)' <=> Expects(c)
  BY DEF Expects, Permitted, ReadsString
<1>. QED  BY <1>1 DEF AnswerInv, ReadsString

\* Each action preserves AnswerInv.
LEMMA AnswerStep == TypeOK /\ LoopInv /\ ThreadInv /\ AnswerInv /\ [Next]_vars => AnswerInv'
<1>. SUFFICES ASSUME TypeOK, LoopInv, ThreadInv, AnswerInv, [Next]_vars
              PROVE  AnswerInv'
  OBVIOUS
<1>0. ASSUME UNCHANGED <<kind, req>>, NEW c \in Clients
      PROVE  Expects(c)' <=> Expects(c)
  BY <1>0 DEF Expects, Permitted, ReadsString
<1>1. ASSUME NEW c \in Clients, Connect(c) \/ Retry(c)
      PROVE  AnswerInv'
  <2>1. CASE queue' = Append(queue, c)
    <3>1. Waiting(c)' /\ \A d \in Clients : Waiting(d) => Waiting(d)'
      BY <2>1, Queued DEF TypeOK
    <3>2. Served(c)' /\ \A d \in Clients : Served(d) => Served(d)'
      BY <1>1, <3>1 DEF Connect, Retry, Served, Waiting
    <3>. QED  BY <1>1, <3>2, AnswerKept DEF TypeOK, Connect, Retry
  <2>2. CASE queue' = queue /\ cli'[c] \in {"retry", "noDaemon"} /\ Connect(c)
    <3>1. \A d \in Clients : Served(d) => Served(d)'
      BY <2>2 DEF Connect, Served
    <3>. QED  BY <2>2, <3>1, AnswerKept DEF TypeOK, Connect
  <2>. QED  BY <1>1, <2>1, <2>2 DEF TypeOK, Connect, Retry
<1>2. ASSUME NEW c \in Clients, Send(c) \/ HangUp(c)
      PROVE  AnswerInv'
  <2>1. \A d \in Clients : Served(d) => Served(d)'
    BY <1>2 DEF Send, HangUp, server, Served
  <2>. QED  BY <1>2, <2>1, AnswerKept DEF TypeOK, Send, HangUp, server
<1>3. ASSUME NEW c \in Clients, ReadReply(c)
      PROVE  AnswerInv'
  <2>1. \A d \in Clients : Served(d)' <=> Served(d)
    BY <1>3 DEF ReadReply, server, Served
  <2>2. \A d \in Clients : Expects(d)' <=> Expects(d)
    BY <1>3, <1>0 DEF ReadReply
  <2>3. deaths = 0 /\ Expects(c) => cli'[c] # "garbled"
    BY <1>3 DEF ReadReply, AnswerInv, TypeOK, Expects
  <2>. QED  BY <1>3, <2>1, <2>2, <2>3 DEF TypeOK, ReadReply, AnswerInv, server, ReadsString
<1>4. ASSUME NEW c \in Clients, Bind(c) \/ Listen(c)
      PROVE  AnswerInv'
  <2>1. \A d \in Clients : Served(d) => Served(d)'
    BY <1>4 DEF Bind, Listen, server, Served
  <2>. QED  BY <1>4, <2>1, AnswerKept DEF Bind, Listen, server
<1>5. ASSUME Accept
      PROVE  AnswerInv'
  <2>1. \A d \in Clients : Waiting(d) => d = Head(queue) \/ Waiting(d)'
    BY <1>5, Accepted DEF Accept, TypeOK
  <2>2. \A d \in Clients : Served(d) => Served(d)'
    BY <1>5, <2>1, ClientsAssumption DEF Accept, LoopInv, Served, Waiting
  <2>. QED  BY <1>5, <2>2, AnswerKept DEF Accept
<1>6. ASSUME Verify
      PROVE  AnswerInv'
  <2>1. \A d \in Clients : kind[d] # "stranger" /\ Served(d) => Served(d)'
    BY <1>6 DEF Verify, Close, Served
  <2>2. \A d \in Clients : Expects(d)' <=> Expects(d)
    BY <1>6, <1>0 DEF Verify
  <2>. QED  BY <1>6, <2>1, <2>2 DEF Verify, AnswerInv, Expects, ReadsString
<1>7. ASSUME ReadCode
      PROVE  AnswerInv'
  <2>1. current \in Clients
    BY <1>7 DEF ReadCode, LoopInv, TypeOK
  <2>2. \A d \in Clients : Expects(d)' <=> Expects(d)
    BY <1>7, <1>0 DEF ReadCode
  <2>3. \A d \in Clients \ {current} : (Served(d) => Served(d)') /\ reply'[d] = reply[d]
    BY <1>7, <2>1 DEF ReadCode, Dispatch, Close, Served, TypeOK
  <2>4. ASSUME Expects(current), cli[current] \in {"sent", "left"}
        PROVE  \/ reply'[current] = "string"
               \/ reply'[current] = reply[current] /\ current \in threads'
    BY <1>7, <2>1, <2>4
       DEF ReadCode, Dispatch, Close, Expects, ReadsString, InlineAnswer, Inline, TypeOK
  <2>5. ASSUME cli[current] \notin {"sent", "left"}
        PROVE  reply' = reply /\ cli[current] # "connected"
    BY <1>7, <2>5 DEF ReadCode
  <2>6. ASSUME deaths = 0, NEW d \in Clients, Expects(d)
        PROVE  /\ reply'[d] \in {"none", "string"} /\ cli'[d] # "garbled"
               /\ cli'[d] \in {"connected", "sent"} => Served(d)' \/ reply'[d] = "string"
    <3>0. /\ reply[d] \in {"none", "string"} /\ cli[d] # "garbled" /\ cli' = cli
          /\ cli[d] \in {"connected", "sent"} => Served(d) \/ reply[d] = "string"
      BY <1>7, <2>6 DEF AnswerInv, ReadCode
    <3>1. CASE d # current
      BY <3>0, <3>1, <2>3
    <3>2. CASE d = current /\ cli[d] \in {"sent", "left"}
      BY <3>0, <3>2, <2>4, <2>6 DEF Served
    <3>3. CASE d = current /\ cli[d] \notin {"sent", "left"}
      BY <3>0, <3>3, <2>5
    <3>. QED  BY <3>1, <3>2, <3>3
  <2>. QED  BY <1>7, <2>2, <2>6 DEF ReadCode, AnswerInv, ReadsString
<1>8. ASSUME NEW c \in Clients, Handle(c)
      PROVE  AnswerInv'
  <2>1. \A d \in Clients \ {c} : (Served(d) => Served(d)') /\ reply'[d] = reply[d]
    BY <1>8 DEF Handle, Served, TypeOK
  <2>2. \A d \in Clients : Expects(d)' <=> Expects(d)
    BY <1>8, <1>0 DEF Handle
  <2>3. Expects(c) => reply'[c] = "string"
    <3>1. c \notin threads \/ req[c] \notin Inline
      BY DEF ThreadInv
    <3>. QED  BY <1>8, <3>1 DEF Handle, HandlerAnswer, Expects, ReadsString, Inline, TypeOK
  <2>. QED  BY <1>8, <2>1, <2>2, <2>3 DEF Handle, AnswerInv, ReadsString
<1>9. ASSUME DaemonDies
      PROVE  AnswerInv'
  <2>1. deaths' # 0
    BY <1>9 DEF DaemonDies, TypeOK
  <2>. QED  BY <1>9, <2>1 DEF DaemonDies, AnswerInv, ReadsString
<1>10. ASSUME UNCHANGED vars
       PROVE  AnswerInv'
  <2>1. \A d \in Clients : Served(d) => Served(d)'
    BY <1>10 DEF vars, Served
  <2>. QED  BY <1>10, <2>1, AnswerKept DEF vars
<1>. QED  BY <1>1, <1>2, <1>3, <1>4, <1>5, <1>6, <1>7, <1>8, <1>9, <1>10 DEF Next

(***************************************************************************)
(* The theorems.                                                           *)
(***************************************************************************)

\* The invariant holds at first and is inductive; no fairness is needed.
LEMMA Invariance == Spec => []IInv
<1>1. Init => IInv
  <2>. SUFFICES ASSUME Init PROVE IInv
    OBVIOUS
  <2>1. PICK s \in Scenarios : kind = s.kind /\ req = s.req
    BY DEF Init
  <2>2. [kind |-> kind, req |-> req] \in Scenarios
    <3>1. s = [kind |-> s.kind, req |-> s.req]
      BY ClientsAssumption
    <3>. QED  BY <2>1, <3>1
  <2>3. deaths \in 0 .. MaxDeaths /\ queue \in Seq(Clients)
    BY ClientsAssumption DEF Init
  <2>4. TypeOK
    BY <2>2, <2>3 DEF Init, TypeOK, ClientStates, ProcStates, Answers
  <2>5. LoopInv /\ ThreadInv /\ AnswerInv
    BY DEF Init, LoopInv, ThreadInv, AnswerInv
  <2>. QED  BY <2>4, <2>5 DEF IInv
<1>2. IInv /\ [Next]_vars => IInv'
  BY TypeStep, LoopStep, ThreadStep, AnswerStep DEF IInv
<1>. QED  BY <1>1, <1>2, PTL DEF Spec

\* The variables keep their types; in particular the queue holds clients only.
THEOREM TypeCorrect == Spec => []TypeOK
<1>1. IInv => TypeOK
  BY DEF IInv
<1>. QED  BY <1>1, Invariance, PTL

\* A client that is not refused never takes its answer for something else:
\* it is written a string if it waits for one, and it is not disconnected
\* unanswered, while the daemon lives.
THEOREM AnswersFit == Spec => []AnswersUnderstood
<1>1. IInv => AnswersUnderstood
  BY DEF IInv, AnswerInv, Expects, AnswersUnderstood
<1>. QED  BY <1>1, Invariance, PTL
=============================================================================
