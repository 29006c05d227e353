------------------------------ MODULE McpStdio ------------------------------
(***************************************************************************)
(* McpStdioClient (mcp_client.py) and the server it talks to over pipes:   *)
(* threads that share the client call _rpc, which holds the client's lock  *)
(* from the request until a line of the server is read.                    *)
(*                                                                         *)
(* A request is its id; a line is the id it answers, or Unsolicited: a     *)
(* notification of the server, which answers nothing.  The handshake and   *)
(* tools/list are calls like any other.                                    *)
(***************************************************************************)
EXTENDS Integers, Sequences, FiniteSets

CONSTANTS
  Threads,     \* threads that use the client
  MaxCallIds,  \* bound: ids given out
  MaxNotes     \* bound: notifications of the server

ASSUME McpAssumption ==
  MaxCallIds \in Nat /\ MaxNotes \in Nat /\ "nobody" \notin Threads

VARIABLES
  call,     \* by thread: where its call is, and its id
  lock,     \* who holds _lock
  nextId,   \* _next_id
  inbox,    \* requests the server has not answered
  pipe,     \* the server's lines in the pipe
  buffer,   \* lines read from the pipe with an earlier one
  server,   \* the process: is it up, is its stderr open
  notes,    \* ghost: notifications so far
  outcome   \* by thread: what its last call returned

mcpVars == <<call, lock, nextId, inbox, pipe, buffer, server, notes, outcome>>

Unsolicited == 0
Nobody == "nobody"
CallIds == 1 .. MaxCallIds

McpTypeOK ==
  /\ call \in [Threads -> [at : {"idle", "numbered", "reading", "draining"},
                           id : CallIds \union {Unsolicited}]]
  /\ lock \in Threads \union {Nobody}
  /\ \A t \in Threads : (call[t].at \in {"reading", "draining"}) = (lock = t)
  /\ nextId \in 0 .. MaxCallIds
  /\ inbox \subseteq CallIds
  /\ pipe \in Seq(CallIds \union {Unsolicited}) /\ buffer \in Seq(CallIds \union {Unsolicited})
  /\ server \in [up : BOOLEAN, stderr : BOOLEAN]
  /\ notes \in 0 .. MaxNotes
  /\ outcome \in [Threads -> {"none", "own", "other", "empty", "error", "timeout"}]

McpInit ==
  /\ call = [t \in Threads |-> [at |-> "idle", id |-> Unsolicited]]
  /\ lock = Nobody /\ nextId = 0
  /\ inbox = {} /\ pipe = <<>> /\ buffer = <<>>
  /\ server = [up |-> TRUE, stderr |-> TRUE]
  /\ notes = 0
  /\ outcome = [t \in Threads |-> "none"]

-----------------------------------------------------------------------------
(* The client *)

Return(t, what) ==
  /\ call' = [call EXCEPT ![t] = [at |-> "idle", id |-> Unsolicited]]
  /\ outcome' = [outcome EXCEPT ![t] = what]

\* _allocate_id takes the lock for itself.
AllocateId(t) ==
  /\ call[t].at = "idle" /\ lock = Nobody /\ nextId < MaxCallIds
  /\ nextId' = nextId + 1
  /\ call' = [call EXCEPT ![t] = [at |-> "numbered", id |-> nextId + 1]]
  /\ outcome' = [outcome EXCEPT ![t] = "none"]
  /\ UNCHANGED <<lock, inbox, pipe, buffer, server, notes>>

\* The request is written; to a server that is gone this raises.
SendRequest(t) ==
  /\ call[t].at = "numbered" /\ lock = Nobody
  /\ IF server.up
     THEN /\ lock' = t
          /\ inbox' = inbox \union {call[t].id}
          /\ call' = [call EXCEPT ![t].at = "reading"]
          /\ UNCHANGED outcome
     ELSE Return(t, "error") /\ UNCHANGED <<lock, inbox>>
  /\ UNCHANGED <<nextId, pipe, buffer, server, notes>>

\* readline takes what an earlier read left in the buffer first.
FirstLine(t) == Head(buffer \o pipe)

\* select finds the pipe readable, for a line or for its end, and readline returns a
\* line, whichever it is: its id is not looked at.
ReadLine(t) ==
  /\ call[t].at = "reading"
  /\ pipe # <<>> \/ ~server.up
  /\ lock' = Nobody
  /\ IF buffer \o pipe = <<>>
     THEN Return(t, "empty") /\ UNCHANGED <<pipe, buffer>>
     ELSE /\ Return(t, IF FirstLine(t) = call[t].id THEN "own" ELSE "other")
          /\ buffer' = Tail(buffer \o pipe) /\ pipe' = <<>>
  /\ UNCHANGED <<nextId, inbox, server, notes>>

\* select finds nothing in the pipe for timeout_seconds, whatever the buffer holds.  The
\* message of the error wants the server's stderr, to its end, with the lock held.
TimeOut(t) ==
  /\ call[t].at = "reading" /\ pipe = <<>> /\ server.up
  /\ call' = [call EXCEPT ![t].at = "draining"]
  /\ UNCHANGED <<lock, nextId, inbox, pipe, buffer, server, notes, outcome>>

\* Mutant: the stderr of a server that goes on is not waited for.
DrainedAtOnce(t) ==
  /\ call[t].at = "draining"
  /\ Return(t, "timeout")
  /\ lock' = Nobody
  /\ UNCHANGED <<nextId, inbox, pipe, buffer, server, notes>>

\* _drain_stderr returns, and McpTimeoutError is raised.
Drained(t) ==
  /\ call[t].at = "draining" /\ ~server.stderr
  /\ Return(t, "timeout")
  /\ lock' = Nobody
  /\ UNCHANGED <<nextId, inbox, pipe, buffer, server, notes>>

\* close(), and the next call spawns another process.  During a call, close() is the end
\* of the server for the thread that waits (ServerEnds).
CloseAndRespawn ==
  /\ lock = Nobody /\ \A t \in Threads : call[t].at = "idle"
  /\ server' = [up |-> TRUE, stderr |-> TRUE]
  /\ inbox' = {} /\ pipe' = <<>> /\ buffer' = <<>>
  /\ notes' = 0
  /\ UNCHANGED <<call, lock, nextId, outcome>>

-----------------------------------------------------------------------------
(* The server *)

Answer(id) ==
  /\ server.up /\ id \in inbox
  /\ inbox' = inbox \ {id}
  /\ pipe' = Append(pipe, id)
  /\ UNCHANGED <<call, lock, nextId, buffer, server, notes, outcome>>

Notify ==
  /\ server.up /\ notes < MaxNotes
  /\ notes' = notes + 1
  /\ pipe' = Append(pipe, Unsolicited)
  /\ UNCHANGED <<call, lock, nextId, inbox, buffer, server, outcome>>

\* A server may close its stderr and go on, and it may end.
CloseStderr ==
  /\ server.up /\ server.stderr
  /\ server' = [server EXCEPT !.stderr = FALSE]
  /\ UNCHANGED <<call, lock, nextId, inbox, pipe, buffer, notes, outcome>>

ServerEnds ==
  /\ server.up
  /\ server' = [up |-> FALSE, stderr |-> FALSE]
  /\ inbox' = {}
  /\ UNCHANGED <<call, lock, nextId, pipe, buffer, notes, outcome>>

Client(t) == AllocateId(t) \/ SendRequest(t) \/ ReadLine(t) \/ TimeOut(t) \/ Drained(t)

McpNext ==
  \/ \E t \in Threads : Client(t)
  \/ CloseAndRespawn
  \/ \E id \in CallIds : Answer(id)
  \/ Notify \/ CloseStderr \/ ServerEnds

\* Threads run on, and time passes; nothing is assumed of the server.
McpFairness ==
  \A t \in Threads : /\ WF_mcpVars(ReadLine(t)) /\ WF_mcpVars(TimeOut(t))
                     /\ WF_mcpVars(Drained(t)) /\ SF_mcpVars(SendRequest(t))

McpSpec == McpInit /\ [][McpNext]_mcpVars /\ McpFairness

-----------------------------------------------------------------------------
(* Properties *)

\* A request is answered with a line that answers another only if the server sent
\* a notification or closed its stderr: otherwise no request is ever left behind by
\* a timeout, as a timeout does not return (McpStdioClient._rpc).
LinesInStep ==
  server.up /\ notes = 0 /\ server.stderr =>
    /\ Len(buffer \o pipe) <= 1
    /\ \A t \in Threads :
         call[t].at \in {"reading", "draining"} =>
           inbox \union {(buffer \o pipe)[i] : i \in DOMAIN (buffer \o pipe)} = {call[t].id}

\* "Read with a timeout to prevent hanging forever if the MCP server gets stuck"
\* (the comment in _rpc): a call that waits for its answer returns.
CallsReturn ==
  \A t \in Threads : call[t].at = "reading" ~> call[t].at = "idle"
=============================================================================
