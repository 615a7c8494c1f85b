------------------------------ MODULE KVStore ------------------------------
(***************************************************************************)
(* What LeKV promises its clients while nothing fails: one map from keys   *)
(* to values, on which every command that was begun is executed once and   *)
(* atomically.  No nodes, no tablets, no migrations.                       *)
(***************************************************************************)
CONSTANTS Client, Key, Value,
          NoKey,     \* the key of no command
          NoValue    \* what a key without a value has

VARIABLES
    store,     \* the map
    pending,   \* pending[c]: the command c has begun and not finished
    answer     \* answer[c]: what the GET of c would return now

kvVars == <<store, pending, answer>>

None == [op |-> "idle", key |-> NoKey, val |-> NoValue]

\* A pending GET sees the map as it is, without delay.
Answers(s, p) == [c \in Client |-> IF p[c].op = "get" THEN s[p[c].key] ELSE NoValue]

Begin(c) ==
    /\ pending[c] = None
    /\ \E op \in {"put", "get", "delete"}, k \in Key, v \in Value :
          pending' = [pending EXCEPT ![c] =
              [op |-> op, key |-> k, val |-> IF op = "put" THEN v ELSE NoValue]]
    /\ UNCHANGED store

Execute(c) ==
    LET cmd == pending[c]
    IN  /\ cmd # None
        /\ store' = IF cmd.op = "get" THEN store ELSE [store EXCEPT ![cmd.key] = cmd.val]
        /\ pending' = [pending EXCEPT ![c] = None]

KVInit ==
    /\ store = [k \in Key |-> NoValue]
    /\ pending = [c \in Client |-> None]
    /\ answer = Answers(store, pending)

KVNext ==
    /\ \E c \in Client : Begin(c) \/ Execute(c)
    /\ answer' = Answers(store', pending')

KVSpec == KVInit /\ [][KVNext]_kvVars
=============================================================================
