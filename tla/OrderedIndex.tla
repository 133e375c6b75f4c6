----------------------------- MODULE OrderedIndex -----------------------------
(***************************************************************************)
(* What an index promises to the threads that use it: every insertion and  *)
(* every deletion takes effect at one moment between its call and its      *)
(* return, and its result is what it found at that moment.                 *)
(***************************************************************************)
CONSTANTS Threads, Calls, NoCall

VARIABLES
    index,   \* the keys it holds
    call,    \* the operation a thread has asked for
    rc       \* its result

Init == index = {} /\ call = [t \in Threads |-> NoCall] /\ rc = [t \in Threads |-> "SUCCESS"]

Start(t) ==
    /\ call[t] = NoCall
    /\ \E c \in Calls :
        /\ call' = [call EXCEPT ![t] = c]
        /\ \/ rc' = [rc EXCEPT ![t] = "RUNNING"]
           \/ c.op = "READ" /\ rc' = [rc EXCEPT ![t] = "INVALID_ARGUMENT"]
    /\ UNCHANGED index

Result(t, r) == rc[t] = "RUNNING" /\ rc' = [rc EXCEPT ![t] = r] /\ UNCHANGED call

Insert(t) ==
    /\ call[t].op = "INSERT" /\ call[t].key \notin index
    /\ index' = index \cup {call[t].key} /\ Result(t, "SUCCESS")

Delete(t) ==
    /\ call[t].op = "DELETE" /\ call[t].key \in index
    /\ index' = index \ {call[t].key} /\ Result(t, "SUCCESS")

(* The refusals: a key that is there, a key that is not, and an insertion  *)
(* that finds the tree emptied after it had seen it filled.                *)
Refuse(t) ==
    /\ \/ call[t].op = "INSERT" /\ call[t].key \in index /\ Result(t, "RECORD_DUPLICATE_KEY")
       \/ call[t].op = "INSERT" /\ index = {} /\ Result(t, "EMPTY")
       \/ call[t].op = "DELETE" /\ call[t].key \notin index /\ Result(t, "RECORD_NOT_EXIST")
    /\ UNCHANGED index

Scan(t) ==
    /\ call[t].op = "READ"
    /\ Result(t, "RECORD_EOF") \/ Result(t, "LOCKED_NEED_WAIT")
    /\ UNCHANGED index

(* The file is full or a page cannot be read, and nothing has been done.   *)
Fail(t) ==
    /\ Result(t, "IOERR_READ") \/ (call[t].op = "INSERT" /\ Result(t, "NOBUF"))
    /\ UNCHANGED index

(* It happens after the operation has taken effect: then the operation     *)
(* must not return as if nothing had happened, and never does.             *)
Cut(t) ==
    /\ call[t].op \in {"INSERT", "DELETE"} /\ rc[t] = "SUCCESS"
    /\ rc' = [rc EXCEPT ![t] = "UNDO"] /\ UNCHANGED <<index, call>>

Return(t) ==
    /\ call[t] # NoCall /\ rc[t] \notin {"RUNNING", "UNDO"}
    /\ call' = [call EXCEPT ![t] = NoCall] /\ UNCHANGED <<index, rc>>

Next == \E t \in Threads : Start(t) \/ Insert(t) \/ Delete(t) \/ Refuse(t) \/ Scan(t) \/ Fail(t) \/ Cut(t) \/ Return(t)

Spec == Init /\ [][Next]_<<index, call, rc>>
=============================================================================
