------------------------------- MODULE Props -------------------------------
(* resetprop: system properties in memory and persistent properties on disk *)
(* (resetprop/resetprop.cpp, persist_properties.cpp), beside the property   *)
(* service of init, which sets properties at any time.                      *)
(*                                                                          *)
(* An empty value stands for no property, as getprop reports it. Persistent *)
(* properties are one protobuf file; on old devices one file each.          *)
EXTENDS Integers

CONSTANTS
    PropNames,    \* names, by what their prefix says
    Ro, Persist,  \* SUBSET PropNames: "ro." and "persist."
    Long,         \* a value longer than PROP_VALUE_MAX - 1
    Short,        \* the other values
    MaxPropOps    \* bound on what is asked of resetprop and of init

VARIABLES
    propMem,      \* the property area
    propDisk,     \* /data/property
    propList,     \* prop_list in persist_deleteprop
    propStep,     \* what resetprop is doing
    propJob,      \* what it was asked to do
    use_pb,       \* the kind of storage, found at the first call
    propRet,      \* what the last call returned
    propOps,
    propWant,     \* ghost: the persistent properties as they were set and deleted
    propRaced     \* ghost: init has written between two steps of resetprop

propVars == <<propMem, propDisk, propList, propStep, propJob, use_pb, propRet, propOps, propWant, propRaced>>

Values == {Long} \cup Short
None == [p \in PropNames |-> ""]
NoJob == [op |-> "none", name |-> "", value |-> "", svc |-> FALSE, persist |-> FALSE]

PropInit ==
    /\ propMem = None /\ propDisk = None /\ propList = None /\ propStep = "idle" /\ propJob = NoJob
    /\ use_pb = "unknown" /\ propRet = 0 /\ propOps = 0 /\ propWant = None /\ propRaced = FALSE

\* setprop, delprop, getprop with any flags; resetprop is one process.
PropCall ==
    /\ propStep = "idle" /\ propOps < MaxPropOps /\ propOps' = propOps + 1
    /\ use_pb' \in IF use_pb = "unknown" THEN {"file", "directory"} ELSE {use_pb}
    /\ \E n \in PropNames, svc, per \in BOOLEAN :
        \/ \E v \in Values : propJob' = [op |-> "set", name |-> n, value |-> v, svc |-> svc, persist |-> FALSE]
                             /\ propStep' = "set"
        \/ propJob' = [op |-> "del", name |-> n, value |-> "", svc |-> FALSE, persist |-> per] /\ propStep' = "delete"
        \/ propJob' = [op |-> "get", name |-> n, value |-> "", svc |-> FALSE, persist |-> per] /\ propStep' = "get"
    /\ UNCHANGED <<propMem, propDisk, propList, propRet, propWant, propRaced>>

PropDone(ret) == propStep' = "idle" /\ propRet' = ret

(***************************************************************************)
(* setprop                                                                 *)
(***************************************************************************)

\* External, the property service: a property that only reads is set once,
\* others must be short; a persistent one goes to disk, too.
ServiceAccepts(n, v) == IF n \in Ro THEN propMem[n] = "" ELSE v # Long
ServiceSets(n, v) ==
    /\ propMem' = [propMem EXCEPT ![n] = v]
    /\ IF n \in Persist
       THEN propDisk' = [propDisk EXCEPT ![n] = v] /\ propWant' = [propWant EXCEPT ![n] = v]
       ELSE UNCHANGED <<propDisk, propWant>>

\* An existing ro. property is deleted first.
SetDeletes ==
    /\ propStep = "set" /\ propStep' = "write"
    /\ propMem' = IF propJob.name \in Ro THEN [propMem EXCEPT ![propJob.name] = ""] ELSE propMem
    /\ UNCHANGED <<propDisk, propList, propJob, use_pb, propRet, propOps, propWant, propRaced>>

\* Through the service, or __system_property_update and _add in place.
SetWrites ==
    /\ propStep = "write"
    /\ LET n == propJob.name
           v == propJob.value
       IN  IF propJob.svc
           THEN IF ServiceAccepts(n, v) THEN ServiceSets(n, v) /\ PropDone(0)
                ELSE PropDone(1) /\ UNCHANGED <<propMem, propDisk, propWant>>
           ELSE IF v = Long /\ n \notin Ro THEN PropDone(1) /\ UNCHANGED <<propMem, propDisk, propWant>>
                ELSE propMem' = [propMem EXCEPT ![n] = v] /\ PropDone(0) /\ UNCHANGED <<propDisk, propWant>>
    /\ UNCHANGED <<propList, propJob, use_pb, propOps, propRaced>>

(***************************************************************************)
(* delprop, persist_deleteprop                                             *)
(***************************************************************************)

Deletes ==
    /\ propStep = "delete" /\ propMem' = [propMem EXCEPT ![propJob.name] = ""]
    /\ LET ret == IF propMem[propJob.name] # "" THEN 0 ELSE 1
       IN  IF propJob.persist /\ propJob.name \in Persist
           THEN propStep' = (IF use_pb = "file" THEN "read" ELSE "unlink") /\ propRet' = ret ELSE PropDone(ret)
    /\ UNCHANGED <<propDisk, propList, propJob, use_pb, propOps, propWant, propRaced>>

Unlink ==
    /\ propStep = "unlink" /\ PropDone(IF propDisk[propJob.name] # "" THEN 0 ELSE propRet)
    /\ propDisk' = [propDisk EXCEPT ![propJob.name] = ""] /\ propWant' = [propWant EXCEPT ![propJob.name] = ""]
    /\ UNCHANGED <<propMem, propList, propJob, use_pb, propOps, propRaced>>

\* pb_getprop into the list; the property is erased from it.
ReadList ==
    /\ propStep = "read"
    /\ IF propDisk[propJob.name] = "" THEN propStep' = "idle" /\ propList' = propList
       ELSE propStep' = "dump" /\ propList' = [propDisk EXCEPT ![propJob.name] = ""]
    /\ UNCHANGED <<propMem, propDisk, propJob, use_pb, propRet, propOps, propWant, propRaced>>

\* The list is written over the file itself.
DumpInPlace ==
    /\ propStep = "dump" /\ propStep' = "rename" /\ propDisk' = None
    /\ UNCHANGED <<propMem, propList, propJob, use_pb, propRet, propOps, propWant, propRaced>>

\* creat and pb_encode of the temporary file
Dump ==
    /\ propStep = "dump" /\ propStep' = "rename"
    /\ UNCHANGED <<propMem, propDisk, propList, propJob, use_pb, propRet, propOps, propWant, propRaced>>

RenameList ==
    /\ propStep = "rename" /\ propDisk' = propList /\ PropDone(0)
    /\ propWant' = [propWant EXCEPT ![propJob.name] = ""]
    /\ UNCHANGED <<propMem, propList, propJob, use_pb, propOps, propRaced>>

\* The value of memory, then, with -p, of the disk.
Got(n, persist) == IF propMem[n] # "" THEN propMem[n] ELSE IF persist /\ n \in Persist THEN propDisk[n] ELSE ""

Gets ==
    /\ propStep = "get" /\ PropDone(IF Got(propJob.name, propJob.persist) # "" THEN 0 ELSE 1)
    /\ UNCHANGED <<propMem, propDisk, propList, propJob, use_pb, propOps, propWant, propRaced>>

(***************************************************************************)
(* The environment                                                         *)
(***************************************************************************)

\* External: somebody calls the property service.
InitSets ==
    /\ propOps < MaxPropOps /\ propOps' = propOps + 1
    /\ \E n \in PropNames, v \in Values : ServiceAccepts(n, v) /\ ServiceSets(n, v)
    /\ propRaced' = (propRaced \/ propStep \in {"write", "dump", "rename"})
    /\ UNCHANGED <<propList, propStep, propJob, use_pb, propRet>>

\* resetprop is killed
PropKilled ==
    /\ propStep # "idle" /\ propStep' = "idle" /\ propJob' = NoJob
    /\ UNCHANGED <<propMem, propDisk, propList, use_pb, propRet, propOps, propWant, propRaced>>

\* The property area is made anew, persistent properties are read from disk.
PropReboot ==
    /\ propStep = "idle" /\ propOps < MaxPropOps /\ propOps' = propOps + 1
    /\ propMem' = propDisk /\ propJob' = NoJob
    /\ UNCHANGED <<propDisk, propList, propStep, use_pb, propRet, propWant, propRaced>>

PropNext ==
    \/ PropCall \/ SetDeletes \/ SetWrites \/ Deletes \/ Unlink \/ ReadList \/ Dump \/ RenameList \/ Gets
    \/ InitSets \/ PropKilled \/ PropReboot
PropSpec == PropInit /\ [][PropNext]_propVars

(***************************************************************************)
(* Properties                                                              *)
(***************************************************************************)

\* The disk always holds what was set and not deleted, also when resetprop
\* is killed while it deletes, unless init has written in between.
PersistKept == ~propRaced => propDisk = propWant
=============================================================================
