------------------------------ MODULE WebServer -------------------------------
(***************************************************************************)
(* The web server (webserver/unit_web_server.cpp): a listener, and a       *)
(* session for each connection, on the one thread of an io_context (which  *)
(* also prints the counters from time to time, and does not change them).  *)
(* An asynchronous operation is begun by one handler and runs another when *)
(* the system has completed it, or failed to; between the two, and while   *)
(* the completed handler waits for the thread, anything else may happen.   *)
(* A session is kept alive by its pending operation alone: one that begins *)
(* no other is destroyed, and its socket closed.                           *)
(***************************************************************************)
EXTENDS WebRequest, FiniteSets, Functions

CONSTANTS
  Connection,    \* the connections clients will make
  Request,       \* the requests they will send on them
  Malformed,     \* what does not parse: garbage, or a request cut short
  MaxRequests,   \* bound on the requests of all, for model checking
  MaxSockets     \* sockets the system lets the server have at once

ASSUME ServerAssumption ==
         /\ Malformed \notin Request
         /\ Request \subseteq RequestType
         /\ MaxRequests \in Nat
         /\ MaxSockets \in Nat \ {0}

VARIABLES
  listening,   \* the constructor of the listener could listen
  acceptor,    \* its async_accept: "pending", "done" or "failed"
  backlog,     \* connections the system has made and no one accepted yet
  session,     \* what each connection is at (SessionState)
  sent,        \* the requests its client has sent
  fin,         \* the client has closed its side
  gone,        \* the client has reset the connection
  buffered,    \* how many of sent were taken from the socket, into buffer_
  consumed,    \* how many of those were parsed; the last one is req_
  res_,        \* the response that is being written
  timer,       \* of expires_after: "off", "running" or "over"
  answers,     \* the responses written
  count,       \* success_count, fail_count, bad_request_count
  request_count

SessionState ==
  {"new", "queued", "accepted",              \* before there is a session
   "reading", "read", "read_end", "read_failed",
   "writing", "written", "write_failed",
   "closed"}

client == <<sent, fin, gone>>
stream == <<buffered, consumed, res_, answers>>
counters == <<count, request_count>>
server == <<listening, acceptor, backlog>>
vars == <<server, session, client, stream, timer, counters>>

None == [kind |-> "none"]
Socket == {c \in Connection : session[c] \notin {"new", "queued", "closed"}}

Become(c, state) == session' = [session EXCEPT ![c] = state]

Init == /\ listening \in BOOLEAN
        /\ acceptor = "pending"
        /\ backlog = <<>>
        /\ session = [c \in Connection |-> "new"]
        /\ sent = [c \in Connection |-> <<>>]
        /\ fin = [c \in Connection |-> FALSE]
        /\ gone = [c \in Connection |-> FALSE]
        /\ buffered = [c \in Connection |-> 0]
        /\ consumed = [c \in Connection |-> 0]
        /\ res_ = [c \in Connection |-> None]
        /\ timer = [c \in Connection |-> "off"]
        /\ answers = [c \in Connection |-> <<>>]
        /\ count = [o \in Outcome \ {"main_page"} |-> 0]
        /\ request_count = 0

-----------------------------------------------------------------------------
(***************************************************************************)
(* The clients.                                                            *)
(***************************************************************************)
Connect(c) == /\ listening
              /\ session[c] = "new"
              /\ Become(c, "queued")
              /\ backlog' = Append(backlog, c)
              /\ UNCHANGED <<listening, acceptor, client, stream, timer, counters>>

Connected(c) == session[c] \notin {"new", "closed"} /\ ~gone[c]

RequestsMade == FoldFunction(LAMBDA q, n : Len(q) + n, 0, sent)

Send(c, r) == /\ Connected(c) /\ ~fin[c]
              /\ RequestsMade < MaxRequests
              /\ sent' = [sent EXCEPT ![c] = Append(@, r)]
              /\ UNCHANGED <<server, session, fin, gone, stream, timer, counters>>

Finish(c) == /\ Connected(c) /\ ~fin[c]
             /\ fin' = [fin EXCEPT ![c] = TRUE]
             /\ UNCHANGED <<server, session, sent, gone, stream, timer, counters>>

Reset(c) == /\ Connected(c)
            /\ gone' = [gone EXCEPT ![c] = TRUE]
            /\ UNCHANGED <<server, session, sent, fin, stream, timer, counters>>

-----------------------------------------------------------------------------
(***************************************************************************)
(* The system completes operations.  Without a descriptor to spare, or on  *)
(* an acceptor that is not listening, accepting fails.                     *)
(***************************************************************************)
AcceptCompletes == /\ acceptor = "pending" /\ backlog # <<>>
                   /\ Cardinality(Socket) < MaxSockets
                   /\ acceptor' = "done"
                   /\ Become(Head(backlog), "accepted")
                   /\ backlog' = Tail(backlog)
                   /\ UNCHANGED <<listening, client, stream, timer, counters>>

AcceptFails == /\ acceptor = "pending"
               /\ \/ ~listening
                  \/ backlog # <<>> /\ Cardinality(Socket) >= MaxSockets
               /\ acceptor' = "failed"
               /\ UNCHANGED <<listening, backlog, session, client, stream, timer, counters>>

\* What the next read finds: in the buffer first, then in the socket, of
\* which a reset leaves nothing.
Available(c) == IF gone[c] THEN buffered[c] ELSE Len(sent[c])

ReadRequest(c) == /\ session[c] = "reading"
                  /\ consumed[c] < Available(c)
                  /\ sent[c][consumed[c] + 1] \in Request
                  /\ consumed' = [consumed EXCEPT ![c] = @ + 1]
                  /\ buffered' = [buffered EXCEPT ![c] =
                                    IF consumed[c] < @ THEN @ ELSE Len(sent[c])]
                  /\ Become(c, "read")
                  /\ UNCHANGED <<server, client, res_, answers, timer, counters>>

ReadEnds(c) == /\ session[c] = "reading"
               /\ fin[c] /\ consumed[c] = Available(c) /\ ~gone[c]
               /\ Become(c, "read_end")
               /\ UNCHANGED <<server, client, stream, timer, counters>>

ReadFails(c) == /\ session[c] = "reading"
                /\ \/ timer[c] = "over"
                   \/ consumed[c] = Available(c) /\ gone[c]
                   \/ /\ consumed[c] < Available(c)
                      /\ sent[c][consumed[c] + 1] = Malformed
                /\ Become(c, "read_failed")
                /\ UNCHANGED <<server, client, stream, timer, counters>>

\* The client takes the response.
WriteCompletes(c) == /\ session[c] = "writing"
                     /\ answers' = [answers EXCEPT ![c] = Append(@, res_[c])]
                     /\ Become(c, "written")
                     /\ UNCHANGED <<server, client, buffered, consumed, res_, timer, counters>>

WriteFails(c) == /\ session[c] = "writing"
                 /\ timer[c] = "over" \/ gone[c]
                 /\ Become(c, "write_failed")
                 /\ UNCHANGED <<server, client, stream, timer, counters>>

\* The 30 seconds of a stream run on while a handler waits or runs.
Expire(c) == /\ session[c] \in {"reading", "read", "writing"}
             /\ timer[c] = "running"
             /\ timer' = [timer EXCEPT ![c] = "over"]
             /\ UNCHANGED <<server, session, client, stream, counters>>

-----------------------------------------------------------------------------
(***************************************************************************)
(* The handlers.                                                           *)
(***************************************************************************)
\* Mutant: a read without a timeout.
do_read_untimed(c) == Become(c, "reading") /\ UNCHANGED timer

\* expires_after covers the read and the write that follows it.
do_read(c) == /\ Become(c, "reading")
              /\ timer' = [timer EXCEPT ![c] = "running"]

\* The socket is shut down, and no operation is begun.
do_close(c) == Become(c, "closed") /\ UNCHANGED timer

\* Mutant: the listener gives up at an error.
on_accept_once ==
  /\ acceptor = "done"
  /\ \E c \in Connection : session[c] = "accepted" /\ do_read(c)
  /\ acceptor' = "pending"
  /\ UNCHANGED <<listening, backlog, client, stream, counters>>

\* Mutant: the session of a connection is not run.
on_accept_idle ==
  /\ acceptor \in {"done", "failed"}
  /\ acceptor' = "pending"
  /\ UNCHANGED <<listening, backlog, session, timer, client, stream, counters>>

\* After an error as after a connection the listener accepts again.
on_accept == /\ acceptor \in {"done", "failed"}
             /\ IF acceptor = "done"
                THEN \E c \in Connection : session[c] = "accepted" /\ do_read(c)
                ELSE UNCHANGED <<session, timer>>
             /\ acceptor' = "pending"
             /\ UNCHANGED <<listening, backlog, client, stream, counters>>

Handled == [req \in Request |-> handle_request(req)]

\* Mutant: only answers that are no error are counted as requests.
AnswerUncounted(c) ==
  LET answer == Handled[sent[c][consumed[c]]]
  IN  /\ request_count' = request_count + (IF answer.outcome = "bad_request" THEN 0 ELSE 1)
      /\ count' = [o \in DOMAIN count |->
                     count[o] + (IF o = answer.outcome THEN 1 ELSE 0)]
      /\ res_' = [res_ EXCEPT ![c] = answer.response]
      /\ Become(c, "writing")
      /\ UNCHANGED timer

\* The request is answered at once: handle_request counts it and begins the
\* write of its response.
Answer(c) == LET answer == Handled[sent[c][consumed[c]]]
             IN  /\ request_count' = request_count + 1
                 /\ count' = [o \in DOMAIN count |->
                                count[o] + (IF o = answer.outcome THEN 1 ELSE 0)]
                 /\ res_' = [res_ EXCEPT ![c] = answer.response]
                 /\ Become(c, "writing")
                 /\ UNCHANGED timer

on_read(c) == /\ \/ session[c] = "read" /\ Answer(c)
                 \/ /\ session[c] \in {"read_end", "read_failed"}
                    /\ do_close(c)
                    /\ UNCHANGED <<counters, res_>>
              /\ UNCHANGED <<server, client, buffered, consumed, answers>>

\* Mutant: a session reads on after it said it would close.
on_write_on(c) == /\ \/ session[c] = "write_failed" /\ do_close(c) /\ UNCHANGED res_
                     \/ session[c] = "written" /\ do_read(c) /\ res_' = [res_ EXCEPT ![c] = None]
                  /\ UNCHANGED <<server, client, buffered, consumed, answers, counters>>

on_write(c) == /\ \/ session[c] = "write_failed" /\ do_close(c) /\ UNCHANGED res_
                  \/ /\ session[c] = "written"
                     /\ IF res_[c].close
                        THEN do_close(c) /\ UNCHANGED res_
                        ELSE do_read(c) /\ res_' = [res_ EXCEPT ![c] = None]
               /\ UNCHANGED <<server, client, buffered, consumed, answers, counters>>

-----------------------------------------------------------------------------
Completion(c) == ReadRequest(c) \/ ReadEnds(c) \/ ReadFails(c)

Next == \/ \E c \in Connection :
             \/ Connect(c) \/ Finish(c) \/ Reset(c)
             \/ \E r \in Request \cup {Malformed} : Send(c, r)
             \/ ReadRequest(c) \/ ReadEnds(c) \/ ReadFails(c)
             \/ WriteCompletes(c) \/ WriteFails(c) \/ Expire(c)
             \/ on_read(c) \/ on_write(c)
        \/ AcceptCompletes \/ AcceptFails \/ on_accept

(***************************************************************************)
(* The thread runs every handler that is ready, the system completes what  *)
(* it can, and time passes.  Clients need do nothing: not even take a      *)
(* response, so WriteCompletes is not fair.                                *)
(***************************************************************************)
Fairness == /\ WF_vars(AcceptCompletes \/ AcceptFails)
            /\ WF_vars(on_accept)
            /\ \A c \in Connection : /\ WF_vars(Completion(c))
                                     /\ WF_vars(WriteFails(c))
                                     /\ WF_vars(Expire(c))
                                     /\ WF_vars(on_read(c))
                                     /\ WF_vars(on_write(c))

Spec == Init /\ [][Next]_vars /\ Fairness

-----------------------------------------------------------------------------
\* Every operation has its handler, and the counts are of requests.
TypeOK == /\ listening \in BOOLEAN
          /\ acceptor \in {"pending", "done", "failed"}
          /\ acceptor = "done" <=> \E c \in Connection : session[c] = "accepted"
          /\ backlog \in Seq(Connection)
          /\ session \in [Connection -> SessionState]
          /\ sent \in [Connection -> Seq(Request \cup {Malformed})]
          /\ fin \in [Connection -> BOOLEAN] /\ gone \in [Connection -> BOOLEAN]
          /\ buffered \in [Connection -> Nat]
          /\ consumed \in [Connection -> Nat]
          /\ \A c \in Connection : /\ consumed[c] <= buffered[c]
                                   /\ buffered[c] <= Len(sent[c])
          /\ timer \in [Connection -> {"off", "running", "over"}]
          /\ count \in [Outcome \ {"main_page"} -> Nat]
          /\ request_count \in Nat

\* What display_counts prints adds up: each request that was parsed is
\* counted once in request_count, and once more by what came of it unless it
\* was for the main page, in whatever order sessions read, answer, fail and
\* end; what does not parse is not counted.
Counted ==
  UNION {{c} \X (1..(consumed[c] - IF session[c] = "read" THEN 1 ELSE 0)) : c \in Connection}
OutcomeOf(p) == Handled[sent[p[1]][p[2]]].outcome

CountersTell ==
  /\ request_count = Cardinality(Counted)
  /\ \A o \in DOMAIN count : count[o] = Cardinality({p \in Counted : OutcomeOf(p) = o})

\* The server keeps the promises of HttpService: requests that arrive
\* together, before the last answer was taken or before the client closed
\* its side, are each answered in their order, none is dropped, no answer
\* follows one that closes, and a connection ends for a reason.
StatusOf(c) == CASE session[c] = "new" -> "new"
                 [] session[c] \in {"queued", "accepted"} -> "waiting"
                 [] session[c] \in {"reading", "read", "writing", "written"} -> "open"
                 [] OTHER -> "over"

Service == INSTANCE HttpService WITH
             status <- [c \in Connection |-> StatusOf(c)],
             late <- [c \in Connection |->
                        timer[c] = "over" /\ session[c] \in {"reading", "read", "writing"}]

ImplementsService == Service!Spec

\* The listener survives whatever async_accept reports: a connection that
\* waits because the server is out of sockets is accepted once it has one.
ConnectionsAreAccepted ==
  \A c \in Connection : session[c] = "queued" ~> session[c] = "accepted"

\* No session lives for ever on a client that sends no more, or that does
\* not take its response: its socket is free again in the end.
SessionsEnd ==
  \A c \in Connection : session[c] = "accepted" ~> session[c] = "closed"
=============================================================================
