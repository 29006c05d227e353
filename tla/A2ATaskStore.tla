---------------------------- MODULE A2ATaskStore ----------------------------
(***************************************************************************)
(* The A2A server of an agent: its in-memory task store, the rate limit on *)
(* message/send and the clean-up of old tasks.                             *)
(*                                                                         *)
(* The server is an HTTPServer with one thread, so a request, the task     *)
(* handler included, is one step.  Times are kept as ages: of a task since *)
(* its last status, of an admitted request since it came in.  An age stops *)
(* growing where the code stops telling it from a greater one.             *)
(***************************************************************************)
EXTENDS Integers, Sequences, FiniteSets, Functions, Selection

CONSTANTS
  TaskIds,       \* task ids; more than MaxTasks, and reused once a task is purged
  Clients,       \* client addresses
  MaxTasks,      \* MAX_TASKS
  MaxPerWindow,  \* MAX_TASKS_PER_MINUTE
  Window,        \* the minute of the rate limit
  MaxAge,        \* the hour a finished task is kept
  HandlerStates  \* the states a task handler answers with

ASSUME StoreAssumption ==
  /\ IsFiniteSet(TaskIds)
  /\ MaxTasks \in Nat \ {0} /\ MaxPerWindow \in Nat \ {0}
  /\ Window \in Nat \ {0} /\ MaxAge \in Nat

VARIABLES
  tasks,     \* _tasks: state and age by id
  requests,  \* _request_counts: ages of the requests counted, by client
  admitted   \* ghost: how many requests of each age the rate limit let through

vars == <<tasks, requests, admitted>>

Terminal == {"completed", "failed", "canceled", "rejected"}
States == Terminal \union HandlerStates
Held == DOMAIN tasks

TypeOK ==
  /\ Held \subseteq TaskIds
  /\ \A id \in Held : tasks[id].state \in States /\ tasks[id].age \in 0 .. MaxAge + 1
  /\ requests \in [Clients -> Seq(0 .. Window)]
  /\ admitted \in [Clients -> [0 .. Window - 1 -> Nat]]

Init ==
  /\ tasks = <<>>
  /\ requests = [c \in Clients |-> <<>>]
  /\ admitted = [c \in Clients |-> [age \in 0 .. Window - 1 |-> 0]]

-----------------------------------------------------------------------------
(* _check_rate_limit *)

\* Mutant: the window is one time unit shorter.
RecentTooShort(client) ==
  Kept(requests[client], {i \in DOMAIN requests[client] : requests[client][i] < Window - 1})

\* The requests of the last minute: those sent later than a minute ago.
Recent(client) ==
  Kept(requests[client], {i \in DOMAIN requests[client] : requests[client][i] < Window})

WithinRate(client) == Len(Recent(client)) < MaxPerWindow

Admit(client) ==
  /\ WithinRate(client)
  /\ requests' = [requests EXCEPT ![client] = Append(Recent(client), 0)]
  /\ admitted' = [admitted EXCEPT ![client][0] = @ + 1]

\* Over the limit: refused, and not even the list is pruned.
RefuseRate(client) ==
  /\ ~WithinRate(client)
  /\ UNCHANGED vars

-----------------------------------------------------------------------------
(* message/send *)

\* Mutant: one task too many.
IsFullLate == Cardinality(Held) > MaxTasks

IsFull == Cardinality(Held) >= MaxTasks

\* Mutant: a task is purged for its age, whatever its state.
PurgeableByAge == {id \in Held : tasks[id].age > MaxAge}

\* _cleanup_old_tasks: finished, and for more than an hour.
Purgeable == {id \in Held : tasks[id].state \in Terminal /\ tasks[id].age > MaxAge}

\* Refused because the store is full; the request counts against the rate all
\* the same, and nothing is cleaned up.
RefuseFull(client) ==
  /\ IsFull
  /\ Admit(client)
  /\ UNCHANGED tasks

\* create_task cleans up and stores the task; the handler runs, and its answer,
\* or "failed" if it raised, becomes the state of the task.
SendMessage(client, id, state) ==
  /\ ~IsFull
  /\ id \notin Held
  /\ Admit(client)
  /\ tasks' = [t \in (Held \ Purgeable) \union {id} |->
                 IF t = id THEN [state |-> state, age |-> 0] ELSE tasks[t]]

\* Mutant: a state that the clean-up does not know.
CancelTaskMisspelt(id) ==
  /\ id \in Held
  /\ tasks' = [tasks EXCEPT ![id] = [state |-> "cancelled", age |-> 0]]
  /\ UNCHANGED <<requests, admitted>>

\* tasks/cancel: whatever the state, finished ones included.
CancelTask(id) ==
  /\ id \in Held
  /\ tasks' = [tasks EXCEPT ![id] = [state |-> "canceled", age |-> 0]]
  /\ UNCHANGED <<requests, admitted>>

-----------------------------------------------------------------------------

Older(age, limit) == IF age < limit THEN age + 1 ELSE limit

\* A unit of time goes by.
Tick ==
  /\ tasks' = [id \in Held |-> [tasks[id] EXCEPT !.age = Older(@, MaxAge + 1)]]
  /\ requests' = [c \in Clients |->
                    [i \in 1 .. Len(requests[c]) |-> Older(requests[c][i], Window)]]
  /\ admitted' = [c \in Clients |->
                    [age \in 0 .. Window - 1 |-> IF age = 0 THEN 0 ELSE admitted[c][age - 1]]]

Send(client) ==
  \/ RefuseRate(client)
  \/ RefuseFull(client)
  \/ \E id \in TaskIds, state \in HandlerStates \union {"failed"} : SendMessage(client, id, state)

Next ==
  \/ \E client \in Clients : Send(client)
  \/ \E id \in TaskIds : CancelTask(id)
  \/ Tick

\* Time goes on and clients keep asking: the environment's part, on which the
\* store relies to be cleaned up at all.
Spec == Init /\ [][Next]_vars /\ WF_vars(Tick) /\ \A c \in Clients : SF_vars(Send(c))

-----------------------------------------------------------------------------
(* Properties *)

\* The store never holds more than MAX_TASKS tasks, although the size is tested
\* and the task added in two separate calls (_TaskStore.is_full, create_task).
StoreBounded == Cardinality(Held) <= MaxTasks

\* In no stretch of time shorter than a minute is a client let through more than
\* MAX_TASKS_PER_MINUTE times, however its requests fall (_check_rate_limit).
RateLimitHolds ==
  \A c \in Clients : SumFunction(admitted[c]) <= MaxPerWindow

\* A task leaves the store only after it was finished for more than an hour:
\* what it answered can be fetched until then (_cleanup_old_tasks).
UnfinishedKept ==
  [][\A id \in Held : id \notin DOMAIN tasks' =>
       tasks[id].state \in Terminal /\ tasks[id].age > MaxAge]_vars

\* A store is not for ever full of tasks that are old enough to be purged ("old
\* tasks never purged" is what _cleanup_old_tasks was written against).
FullStoreRecovers == []<>~(IsFull /\ Purgeable = Held)
=============================================================================
