--------------------------- MODULE WebServer_proof ---------------------------
(***************************************************************************)
(* For any connections, requests and number of sockets: the state is well  *)
(* formed, the counters tell what was answered, and the server implements  *)
(* HttpService.                                                            *)
(*                                                                         *)
(* What ties the server to the service is how many requests a session has  *)
(* parsed and how many answers it has written, which is fixed by what the  *)
(* session is at (StreamOK); and that the backlog holds each connection    *)
(* that waits once, and at most one has been accepted and not yet run.     *)
(***************************************************************************)
EXTENDS WebServer, FiniteSetTheorems, SequenceTheorems, TLAPS

Answers == {Handled[r].response : r \in Request}
Ready == {"reading", "read", "writing"}

StreamTyped == /\ answers \in [Connection -> Seq(Answers)]
               /\ res_ \in [Connection -> Answers \cup {None}]

BacklogOK == /\ \A i \in DOMAIN backlog : session[backlog[i]] = "queued"
             /\ \A i, j \in DOMAIN backlog : backlog[i] = backlog[j] => i = j
             /\ \A c, d \in Connection :
                  session[c] = "accepted" /\ session[d] = "accepted" => c = d

StreamOK(c) ==
  /\ session[c] \in {"new", "queued", "accepted"} => consumed[c] = 0 /\ answers[c] = <<>>
  /\ session[c] \in {"reading", "written"} => consumed[c] = Len(answers[c])
  /\ session[c] \in {"read", "writing"} =>
       consumed[c] = Len(answers[c]) + 1 /\ sent[c][consumed[c]] \in Request
  /\ session[c] \in Ready => ~Service!Closing(c)
  /\ session[c] = "writing" => res_[c] = Handled[sent[c][consumed[c]]].response
  /\ session[c] = "written" => answers[c] # <<>> /\ res_[c] = answers[c][Len(answers[c])]

IInv == /\ TypeOK
        /\ StreamTyped
        /\ BacklogOK
        /\ \A c \in Connection : StreamOK(c)

-----------------------------------------------------------------------------
\* Appending keeps the elements there are.
LEMMA Appended ==
  ASSUME NEW S, NEW s \in Seq(S), NEW e \in S
  PROVE  /\ Append(s, e) \in Seq(S) /\ Append(s, e) # <<>>
         /\ Len(Append(s, e)) = Len(s) + 1 /\ Len(s) \in Nat
         /\ DOMAIN Append(s, e) = 1 .. Len(s) + 1
         /\ \A i \in 1 .. Len(s) : Append(s, e)[i] = s[i]
         /\ Append(s, e)[Len(s) + 1] = e
  BY AppendProperties

\* The invariant holds at first.
LEMMA InitInv == Init => IInv
  <1> SUFFICES ASSUME Init PROVE IInv
    OBVIOUS
  <1>1. TypeOK
    BY DEF Init, TypeOK, SessionState
  <1>2. StreamTyped
    BY DEF Init, StreamTyped
  <1>3. BacklogOK
    BY DEF Init, BacklogOK
  <1>4. ASSUME NEW c \in Connection PROVE StreamOK(c)
    BY DEF Init, StreamOK, Ready
  <1> QED
    BY <1>1, <1>2, <1>3, <1>4 DEF IInv

\* What the provers need of the types.
Bounded == /\ \A d \in Connection :
                /\ Len(sent[d]) \in Nat /\ Len(answers[d]) \in Nat
                /\ consumed[d] \in Nat /\ buffered[d] \in Nat
                /\ consumed[d] <= buffered[d] /\ buffered[d] <= Len(sent[d])
           /\ \A i \in DOMAIN backlog : backlog[i] \in Connection

\* What the invariant says of the lengths and the places.
LEMMA Bounds == IInv => Bounded
  BY DEF IInv, TypeOK, StreamTyped, Bounded

\* A session that is neither queued nor becomes accepted does not matter to
\* the backlog.
LEMMA BacklogKept ==
  ASSUME IInv, NEW c \in Connection, NEW s, session[c] # "queued", s # "accepted",
         session' = [session EXCEPT ![c] = s], UNCHANGED backlog
  PROVE  BacklogOK'
  <1>1. Bounded
    BY Bounds
  <1>2. session \in [Connection -> SessionState] /\ BacklogOK
    BY DEF IInv, TypeOK
  <1> QED
    BY <1>1, <1>2 DEF Bounded, BacklogOK

\* One session's operations leave the others alone.
LEMMA OthersKept ==
  ASSUME NEW d \in Connection, StreamOK(d),
         session'[d] = session[d], consumed'[d] = consumed[d], sent'[d] = sent[d],
         res_'[d] = res_[d], answers'[d] = answers[d]
  PROVE  StreamOK(d)'
  BY DEF StreamOK, Ready, Service!Closing

\* A connection joins the backlog.
LEMMA ConnectInv ==
  ASSUME IInv, NEW c \in Connection, Connect(c)
  PROVE  IInv'
  <1> USE DEF Connect, Become, client, stream, counters
  <1>b. Bounded
    BY Bounds
  <1>0. /\ Len(backlog) \in Nat /\ DOMAIN backlog = 1 .. Len(backlog)
        /\ backlog' \in Seq(Connection) /\ DOMAIN backlog' = 1 .. Len(backlog) + 1
        /\ \A i \in 1 .. Len(backlog) : backlog'[i] = backlog[i]
        /\ backlog'[Len(backlog) + 1] = c
    BY Appended DEF IInv, TypeOK
  <1>1. TypeOK'
    BY <1>b, <1>0 DEF IInv, TypeOK, SessionState, Bounded
  <1>2. StreamTyped'
    BY DEF IInv, StreamTyped
  <1>3. BacklogOK'
    <2>1. /\ session \in [Connection -> SessionState] /\ BacklogOK
          /\ session[c] = "new" /\ session' = [session EXCEPT ![c] = "queued"]
          /\ \A i \in 1 .. Len(backlog) : backlog[i] \in Connection
      BY <1>b, <1>0 DEF IInv, TypeOK, Bounded
    <2> USE DEF BacklogOK
    <2>2. \A i \in 1 .. Len(backlog) : backlog[i] # c /\ session[backlog[i]] = "queued"
      BY <1>0, <2>1
    <2> HIDE DEF Connect, Become, client, stream, counters
    <2>3. \A i \in DOMAIN backlog' : session'[backlog'[i]] = "queued"
      BY <1>0, <2>1, <2>2
    <2>4. \A i, j \in DOMAIN backlog' : backlog'[i] = backlog'[j] => i = j
      BY <1>0, <2>1, <2>2
    <2>5. \A d, e \in Connection : session'[d] = "accepted" /\ session'[e] = "accepted" => d = e
      BY <2>1
    <2> QED
      BY <2>3, <2>4, <2>5
  <1>4. ASSUME NEW d \in Connection PROVE StreamOK(d)'
    <2>1. CASE d # c
      BY <2>1, OthersKept DEF IInv, TypeOK, StreamTyped
    <2>2. CASE d = c
      BY <2>2, <1>b DEF IInv, TypeOK, StreamTyped, StreamOK, Ready, Service!Closing, Bounded
    <2> QED
      BY <2>1, <2>2
  <1> QED
    BY <1>1, <1>2, <1>3, <1>4 DEF IInv

\* What was sent before a request stays in its place.
LEMMA SendInv ==
  ASSUME IInv, NEW c \in Connection, NEW r \in Request \cup {Malformed}, Send(c, r)
  PROVE  IInv'
  <1> USE DEF Send, server, stream, counters
  <1>b. Bounded
    BY Bounds
  <1>0. /\ sent' \in [Connection -> Seq(Request \cup {Malformed})]
        /\ Len(sent'[c]) = Len(sent[c]) + 1
        /\ \A i \in 1 .. Len(sent[c]) : sent'[c][i] = sent[c][i]
        /\ \A d \in Connection \ {c} : sent'[d] = sent[d]
    BY Appended DEF IInv, TypeOK
  <1>1. TypeOK'
    BY <1>b, <1>0 DEF IInv, TypeOK, SessionState, Bounded
  <1>2. StreamTyped'
    BY DEF IInv, StreamTyped
  <1>3. BacklogOK'
    BY DEF IInv, BacklogOK
  <1>4. ASSUME NEW d \in Connection PROVE StreamOK(d)'
    <2>1. CASE d # c
      BY <1>0, <2>1, OthersKept DEF IInv
    <2>2. CASE d = c
      <3>1. session[c] \in {"read", "writing"} => consumed[c] \in 1 .. Len(sent[c])
        BY <1>b DEF IInv, StreamOK, Bounded
      <3>2. session[c] \in {"read", "writing"} => sent'[c][consumed[c]] = sent[c][consumed[c]]
        BY <1>0, <3>1
      <3> QED
        <4>1. StreamOK(c)
          BY DEF IInv
        <4>2. UNCHANGED <<session[c], consumed[c], res_[c], answers[c]>>
          OBVIOUS
        <4> HIDE DEF Send, server, stream, counters
        <4> QED
          BY <2>2, <3>2, <4>1, <4>2 DEF StreamOK, Ready, Service!Closing
    <2> QED
      BY <2>1, <2>2
  <1> QED
    BY <1>1, <1>2, <1>3, <1>4 DEF IInv

\* The client closes its side or resets the connection.
LEMMA HangUpInv ==
  ASSUME IInv, NEW c \in Connection, Finish(c) \/ Reset(c)
  PROVE  IInv'
  <1> USE DEF Finish, Reset, server, stream, counters
  <1>b. Bounded
    BY Bounds
  <1>1. TypeOK'
    BY <1>b DEF IInv, TypeOK, SessionState, Bounded
  <1>2. StreamTyped'
    BY DEF IInv, StreamTyped
  <1>3. BacklogOK'
    BY <1>b DEF IInv, TypeOK, BacklogOK, Bounded
  <1>4. ASSUME NEW d \in Connection PROVE StreamOK(d)'
    BY <1>b DEF IInv, TypeOK, StreamTyped, StreamOK, Ready, Service!Closing, Bounded
  <1> QED
    BY <1>1, <1>2, <1>3, <1>4 DEF IInv

\* The first of the backlog becomes the one that is accepted.
LEMMA AcceptCompletesInv ==
  ASSUME IInv, AcceptCompletes
  PROVE  IInv'
  <1> USE DEF AcceptCompletes, Become, client, stream, counters
  <1>b. Bounded
    BY Bounds
  <1> DEFINE c == Head(backlog)
  <1>0. /\ Len(backlog) \in Nat \ {0} /\ DOMAIN backlog = 1 .. Len(backlog)
        /\ c \in Connection /\ c = backlog[1]
        /\ backlog' \in Seq(Connection) /\ DOMAIN backlog' = 1 .. Len(backlog) - 1
        /\ \A i \in 1 .. Len(backlog) - 1 : backlog'[i] = backlog[i + 1]
    BY HeadTailProperties DEF IInv, TypeOK
  <1>a. session[c] = "queued" /\ \A d \in Connection : session[d] # "accepted"
    <2>1. 1 \in DOMAIN backlog /\ c = backlog[1]
      BY <1>0
    <2>2. session[c] = "queued"
      BY <2>1 DEF IInv, BacklogOK
    <2>3. \A d \in Connection : session[d] # "accepted"
      BY DEF IInv, TypeOK
    <2> QED
      BY <2>2, <2>3
  <1>c. \A i \in 1 .. Len(backlog) - 1 : backlog[i + 1] # c /\ i + 1 \in DOMAIN backlog
    BY <1>0 DEF IInv, BacklogOK
  <1> HIDE DEF c
  <1>s. session' = [session EXCEPT ![c] = "accepted"]
    BY DEF c
  <1>1. TypeOK'
    BY <1>b, <1>0, <1>s DEF IInv, TypeOK, SessionState, Bounded
  <1>2. StreamTyped'
    BY DEF IInv, StreamTyped
  <1>3. BacklogOK'
    <2>1. \A i \in DOMAIN backlog' : session'[backlog'[i]] = "queued"
      <3>1. session \in [Connection -> SessionState] /\ BacklogOK
        BY DEF IInv, TypeOK
      <3> SUFFICES ASSUME NEW i \in 1 .. Len(backlog) - 1
                   PROVE  session'[backlog[i + 1]] = "queued"
        BY <1>0
      <3>2. i + 1 \in DOMAIN backlog /\ backlog[i + 1] \in Connection \ {c}
        BY <1>b, <1>c DEF Bounded
      <3>3. session[backlog[i + 1]] = "queued"
        BY <3>1, <3>2 DEF BacklogOK
      <3> QED
        BY <1>s, <3>1, <3>2, <3>3
    <2>2. \A i, j \in DOMAIN backlog' : backlog'[i] = backlog'[j] => i = j
      BY <1>0, <1>c DEF IInv, BacklogOK
    <2>3. \A d, e \in Connection : session'[d] = "accepted" /\ session'[e] = "accepted" => d = e
      BY <1>0, <1>a, <1>s DEF IInv, TypeOK
    <2> QED
      BY <2>1, <2>2, <2>3 DEF BacklogOK
  <1>4. ASSUME NEW d \in Connection PROVE StreamOK(d)'
    <2>1. CASE d # c
      <3>1. session'[d] = session[d]
        BY <1>s, <2>1 DEF IInv, TypeOK
      <3> QED
        BY <3>1, OthersKept DEF IInv
    <2>2. CASE d = c
      <3>1. session'[c] = "accepted" /\ consumed[c] = 0 /\ answers[c] = <<>>
        BY <1>0, <1>a, <1>s DEF IInv, TypeOK, StreamOK
      <3> QED
        BY <2>2, <3>1 DEF StreamOK, Ready
    <2> QED
      BY <2>1, <2>2
  <1> QED
    BY <1>1, <1>2, <1>3, <1>4 DEF IInv

\* Nothing is accepted.
LEMMA AcceptFailsInv ==
  ASSUME IInv, AcceptFails
  PROVE  IInv'
  <1> USE DEF AcceptFails, client, stream, counters
  <1>b. Bounded
    BY Bounds
  <1>1. TypeOK'
    BY <1>b DEF IInv, TypeOK, SessionState, Bounded
  <1>2. StreamTyped'
    BY DEF IInv, StreamTyped
  <1>3. BacklogOK'
    BY <1>b DEF IInv, TypeOK, BacklogOK, Bounded
  <1>4. ASSUME NEW d \in Connection PROVE StreamOK(d)'
    BY <1>b DEF IInv, TypeOK, StreamTyped, StreamOK, Ready, Service!Closing, Bounded
  <1> QED
    BY <1>1, <1>2, <1>3, <1>4 DEF IInv

\* A request is parsed: one more than was answered.
LEMMA ReadRequestInv ==
  ASSUME IInv, NEW c \in Connection, ReadRequest(c)
  PROVE  IInv'
  <1> USE DEF ReadRequest, Become, Available, server, client
  <1>b. Bounded
    BY Bounds
  <1>0. /\ consumed[c] + 1 <= buffered'[c] /\ buffered'[c] <= Len(sent[c])
        /\ buffered' \in [Connection -> Nat] /\ consumed' \in [Connection -> Nat]
    BY <1>b DEF IInv, TypeOK, Bounded
  <1>1. TypeOK'
    BY <1>b, <1>0 DEF IInv, TypeOK, SessionState, counters, Bounded
  <1>2. StreamTyped'
    BY DEF IInv, StreamTyped
  <1>3. BacklogOK'
    BY BacklogKept
  <1>4. ASSUME NEW d \in Connection PROVE StreamOK(d)'
    <2>1. CASE d # c
      BY <2>1, OthersKept DEF IInv, TypeOK, StreamTyped
    <2>2. CASE d = c
      BY <2>2, <1>b DEF IInv, TypeOK, StreamTyped, StreamOK, Ready, Service!Closing, Bounded
    <2> QED
      BY <2>1, <2>2
  <1> QED
    BY <1>1, <1>2, <1>3, <1>4 DEF IInv

\* A read that ends or fails leaves all but its session alone.
LEMMA ReadEndsInv ==
  ASSUME IInv, NEW c \in Connection, ReadEnds(c) \/ ReadFails(c)
  PROVE  IInv'
  <1> USE DEF ReadEnds, ReadFails, Become, server, client, stream, counters
  <1>b. Bounded
    BY Bounds
  <1>1. TypeOK'
    BY <1>b DEF IInv, TypeOK, SessionState, Bounded
  <1>2. StreamTyped'
    BY DEF IInv, StreamTyped
  <1>3. BacklogOK'
    BY BacklogKept
  <1>4. ASSUME NEW d \in Connection PROVE StreamOK(d)'
    <2>1. CASE d # c
      BY <2>1, OthersKept DEF IInv, TypeOK, StreamTyped
    <2>2. CASE d = c
      BY <2>2, <1>b DEF IInv, TypeOK, StreamTyped, StreamOK, Ready, Service!Closing, Bounded
    <2> QED
      BY <2>1, <2>2
  <1> QED
    BY <1>1, <1>2, <1>3, <1>4 DEF IInv

\* The answer that is written is the last one then.
LEMMA WriteCompletesInv ==
  ASSUME IInv, NEW c \in Connection, WriteCompletes(c)
  PROVE  IInv'
  <1> USE DEF WriteCompletes, Become, server, client, counters
  <1>b. Bounded
    BY Bounds
  <1>0. /\ res_[c] \in Answers
        /\ answers' = [answers EXCEPT ![c] = Append(answers[c], res_[c])]
        /\ answers'[c] # <<>> /\ Len(answers'[c]) = Len(answers[c]) + 1
        /\ answers'[c][Len(answers[c]) + 1] = res_[c] /\ answers'[c] \in Seq(Answers)
    <2>1. sent[c][consumed[c]] \in Request
      BY DEF IInv, StreamOK
    <2>2. res_[c] \in Answers /\ answers[c] \in Seq(Answers)
      BY <2>1 DEF IInv, StreamTyped, StreamOK, Answers
    <2> QED
      BY <2>2, Appended DEF IInv, StreamTyped
  <1>1. TypeOK'
    BY <1>b DEF IInv, TypeOK, SessionState, Bounded
  <1>2. StreamTyped'
    BY <1>0 DEF IInv, StreamTyped
  <1>3. BacklogOK'
    BY BacklogKept
  <1>4. ASSUME NEW d \in Connection PROVE StreamOK(d)'
    <2>1. CASE d # c
      BY <2>1, OthersKept DEF IInv, TypeOK, StreamTyped
    <2>2. CASE d = c
      BY <2>2, <1>b, <1>0 DEF IInv, TypeOK, StreamTyped, StreamOK, Ready, Service!Closing, Bounded
    <2> QED
      BY <2>1, <2>2
  <1> QED
    BY <1>1, <1>2, <1>3, <1>4 DEF IInv

\* A write that fails leaves all but its session alone.
LEMMA WriteFailsInv ==
  ASSUME IInv, NEW c \in Connection, WriteFails(c)
  PROVE  IInv'
  <1> USE DEF WriteFails, Become, server, client, stream, counters
  <1>b. Bounded
    BY Bounds
  <1>1. TypeOK'
    BY <1>b DEF IInv, TypeOK, SessionState, Bounded
  <1>2. StreamTyped'
    BY DEF IInv, StreamTyped
  <1>3. BacklogOK'
    BY BacklogKept
  <1>4. ASSUME NEW d \in Connection PROVE StreamOK(d)'
    <2>1. CASE d # c
      BY <2>1, OthersKept DEF IInv, TypeOK, StreamTyped
    <2>2. CASE d = c
      BY <2>2, <1>b DEF IInv, TypeOK, StreamTyped, StreamOK, Ready, Service!Closing, Bounded
    <2> QED
      BY <2>1, <2>2
  <1> QED
    BY <1>1, <1>2, <1>3, <1>4 DEF IInv

\* Time runs out.
LEMMA ExpireInv ==
  ASSUME IInv, NEW c \in Connection, Expire(c)
  PROVE  IInv'
  <1> USE DEF Expire, server, client, stream, counters
  <1>b. Bounded
    BY Bounds
  <1>1. TypeOK'
    BY <1>b DEF IInv, TypeOK, SessionState, Bounded
  <1>2. StreamTyped'
    BY DEF IInv, StreamTyped
  <1>3. BacklogOK'
    BY <1>b DEF IInv, TypeOK, BacklogOK, Bounded
  <1>4. ASSUME NEW d \in Connection PROVE StreamOK(d)'
    BY <1>b DEF IInv, TypeOK, StreamTyped, StreamOK, Ready, Service!Closing, Bounded
  <1> QED
    BY <1>1, <1>2, <1>3, <1>4 DEF IInv

\* The session that begins has parsed and answered nothing.
LEMMA AcceptHandledInv ==
  ASSUME IInv, NEW c \in Connection, on_accept, acceptor = "done", session[c] = "accepted"
  PROVE  IInv'
  <1> USE DEF on_accept, do_read, Become, client, stream, counters
  <1>b. Bounded
    BY Bounds
  <1>a. \A d \in Connection : session[d] = "accepted" => d = c
    BY DEF IInv, BacklogOK
  <1>s. /\ session' = [session EXCEPT ![c] = "reading"]
        /\ timer' = [timer EXCEPT ![c] = "running"]
    BY <1>a
  <1>1. TypeOK'
    <2>1. \A d \in Connection : session'[d] # "accepted"
      BY <1>a, <1>s DEF IInv, TypeOK
    <2> QED
      BY <2>1, <1>s DEF IInv, TypeOK, SessionState
  <1>2. StreamTyped'
    BY DEF IInv, StreamTyped
  <1>3. BacklogOK'
    BY <1>s, BacklogKept
  <1>4. ASSUME NEW d \in Connection PROVE StreamOK(d)'
    <2>1. CASE d # c
      BY <1>s, <2>1, OthersKept DEF IInv, TypeOK, StreamTyped
    <2>2. CASE d = c
      BY <2>2, <1>b, <1>s DEF IInv, TypeOK, StreamTyped, StreamOK, Ready, Service!Closing, Bounded
    <2> QED
      BY <2>1, <2>2
  <1> QED
    BY <1>1, <1>2, <1>3, <1>4 DEF IInv

\* After an error nothing but the listener's operation has changed.
LEMMA AcceptRetriedInv ==
  ASSUME IInv, on_accept, acceptor = "failed"
  PROVE  IInv'
  <1> USE DEF on_accept, client, stream, counters
  <1>b. Bounded
    BY Bounds
  <1>1. TypeOK'
    BY <1>b DEF IInv, TypeOK, SessionState, Bounded
  <1>2. StreamTyped'
    BY DEF IInv, StreamTyped
  <1>3. BacklogOK'
    BY <1>b DEF IInv, TypeOK, BacklogOK, Bounded
  <1>4. ASSUME NEW d \in Connection PROVE StreamOK(d)'
    BY <1>b DEF IInv, TypeOK, StreamTyped, StreamOK, Ready, Service!Closing, Bounded
  <1> QED
    BY <1>1, <1>2, <1>3, <1>4 DEF IInv

\* The response to the request that was parsed is written, or the session ends.
LEMMA OnReadInv ==
  ASSUME IInv, NEW c \in Connection, on_read(c)
  PROVE  IInv'
  <1> USE DEF on_read, do_close, Become, server, client
  <1>b. Bounded
    BY Bounds
  <1>a. session[c] = "read" => Handled[sent[c][consumed[c]]].response \in Answers
    BY DEF IInv, StreamOK, Answers
  <1>c. /\ count \in [Outcome \ {"main_page"} -> Nat] /\ request_count \in Nat
        /\ \A o, x : (IF o = x THEN 1 ELSE 0) \in Nat
    BY DEF IInv, TypeOK
  <1>d. session[c] = "read" => /\ count' \in [Outcome \ {"main_page"} -> Nat]
                               /\ request_count' \in Nat
    BY <1>c DEF Answer
  <1>1. TypeOK'
    BY <1>b, <1>d DEF IInv, TypeOK, SessionState, Answer, counters, Bounded
  <1>2. StreamTyped'
    BY <1>a DEF IInv, StreamTyped, Answer
  <1>3. BacklogOK'
    BY BacklogKept DEF Answer
  <1>4. ASSUME NEW d \in Connection PROVE StreamOK(d)'
    <2>1. CASE d # c
      BY <2>1, OthersKept DEF Answer, IInv, TypeOK, StreamTyped
    <2>2. CASE d = c
      BY <2>2, <1>b DEF IInv, TypeOK, StreamTyped, StreamOK, Ready, Service!Closing, Answer, Bounded
    <2> QED
      BY <2>1, <2>2
  <1> QED
    BY <1>1, <1>2, <1>3, <1>4 DEF IInv

\* After an answer the session reads on, unless the answer said it would close.
LEMMA OnWriteInv ==
  ASSUME IInv, NEW c \in Connection, on_write(c)
  PROVE  IInv'
  <1> USE DEF on_write, do_close, do_read, Become, server, client, counters
  <1>b. Bounded
    BY Bounds
  <1>1. TypeOK'
    BY <1>b DEF IInv, TypeOK, SessionState, Bounded
  <1>2. StreamTyped'
    BY DEF IInv, StreamTyped
  <1>3. BacklogOK'
    BY BacklogKept
  <1>4. ASSUME NEW d \in Connection PROVE StreamOK(d)'
    <2>1. CASE d # c
      BY <2>1, OthersKept DEF IInv, TypeOK, StreamTyped
    <2>2. CASE d = c
      BY <2>2, <1>b DEF IInv, TypeOK, StreamTyped, StreamOK, Ready, Service!Closing, Bounded
    <2> QED
      BY <2>1, <2>2
  <1> QED
    BY <1>1, <1>2, <1>3, <1>4 DEF IInv

\* Every step keeps the invariant.
LEMMA StepInv == ASSUME IInv, [Next]_vars PROVE IInv'
  <1>1. CASE UNCHANGED vars
    BY <1>1 DEF IInv, TypeOK, StreamTyped, BacklogOK, StreamOK, Ready, Service!Closing,
                vars, server, client, stream, counters
  <1>2. CASE Next
    BY <1>2, ConnectInv, SendInv, HangUpInv, AcceptCompletesInv, AcceptFailsInv, ReadRequestInv,
       ReadEndsInv, WriteCompletesInv, WriteFailsInv, ExpireInv, AcceptHandledInv, AcceptRetriedInv,
       OnReadInv, OnWriteInv DEF Next, on_accept
  <1> QED
    BY <1>1, <1>2

\* The invariant holds in every state of every behaviour.
THEOREM Invariance == Spec => []IInv
  <1> QED
    BY InitInv, StepInv, PTL DEF Spec

\* Every operation has its handler, and what sessions have parsed and what
\* they hold stays within what was sent, whatever the requests.
THEOREM TypeCorrect == Spec => []TypeOK
  <1>1. IInv => TypeOK
    BY DEF IInv
  <1> QED
    BY <1>1, Invariance, PTL

-----------------------------------------------------------------------------
\* What is counted is the requests parsed so far, less the one about to be
\* answered.
LEMMA CountedIs ==
  \A p : p \in Counted <=>
           \E d \in Connection :
             \E n \in 1 .. (consumed[d] - IF session[d] = "read" THEN 1 ELSE 0) : p = <<d, n>>
  BY DEF Counted

CountOK == /\ IsFiniteSet(Counted)
           /\ CountersTell

\* A step that parses nothing, or parses a request and does not answer it yet,
\* changes neither what is counted nor what came of it.
LEMMA CountKept ==
  ASSUME IInv, CountOK, UNCHANGED counters,
         \A d \in Connection :
           /\ consumed'[d] - (IF session'[d] = "read" THEN 1 ELSE 0)
                = consumed[d] - (IF session[d] = "read" THEN 1 ELSE 0)
           /\ \A n \in 1 .. consumed[d] : sent'[d][n] = sent[d][n]
  PROVE  CountOK'
  <1>1. Counted' = Counted
    BY DEF Counted
  <1>2. \A p \in Counted : OutcomeOf(p)' = OutcomeOf(p)
    BY Bounds, CountedIs DEF OutcomeOf, Bounded
  <1>3. \A o : {p \in Counted : OutcomeOf(p) = o}' = {p \in Counted : OutcomeOf(p) = o}
    BY <1>1, <1>2
  <1> QED
    BY <1>1, <1>3 DEF CountOK, CountersTell, counters

\* Answering a request counts it, once, and by what came of it.
LEMMA CountAnswer ==
  ASSUME IInv, CountOK, NEW c \in Connection, session[c] = "read", on_read(c)
  PROVE  CountOK'
  <1> DEFINE p == <<c, consumed[c]>>
             Of(o) == {q \in Counted : OutcomeOf(q) = o}
             answer == Handled[sent[c][consumed[c]]]
  <1>1. /\ session' = [session EXCEPT ![c] = "writing"]
        /\ request_count' = request_count + 1
        /\ count' = [o \in DOMAIN count |-> count[o] + (IF o = answer.outcome THEN 1 ELSE 0)]
        /\ UNCHANGED <<sent, consumed>>
    BY DEF on_read, Answer, Become, client
  <1>2. Bounded /\ session \in [Connection -> SessionState] /\ count \in [Outcome \ {"main_page"} -> Nat]
    BY Bounds DEF IInv, TypeOK
  <1>3. consumed[c] >= 1 /\ consumed[c] \in Nat
    BY <1>2 DEF IInv, StreamOK, Bounded
  <1>4. Counted' = Counted \cup {p}
    <2>1. \A q : q \in Counted' <=>
             \E d \in Connection :
               \E n \in 1 .. (consumed[d] - IF session'[d] = "read" THEN 1 ELSE 0) : q = <<d, n>>
      BY <1>1 DEF Counted
    <2>2. ASSUME NEW d \in Connection, d # c
          PROVE  (session'[d] = "read") <=> (session[d] = "read")
      BY <1>1, <1>2, <2>2
    <2>3. session'[c] # "read"
      BY <1>1, <1>2
    <2>4. \A n : n \in 1 .. consumed[c] <=> n \in 1 .. (consumed[c] - 1) \/ n = consumed[c]
      BY <1>3
    <2>5. \A q : q \in Counted' <=> q \in Counted \/ q = p
      BY <2>1, <2>2, <2>3, <2>4, CountedIs
    <2> QED
      BY <2>5
  <1>5. p \notin Counted
    <2>1. consumed[c] \notin 1 .. (consumed[c] - 1)
      BY <1>3
    <2> QED
      BY <2>1, CountedIs
  <1>6. \A q : OutcomeOf(q)' = OutcomeOf(q)
    BY <1>1 DEF OutcomeOf
  <1>7. OutcomeOf(p) = answer.outcome
    BY DEF OutcomeOf
  <1>8. /\ IsFiniteSet(Counted')
        /\ Cardinality(Counted') = Cardinality(Counted) + 1
    BY <1>4, <1>5, FS_AddElement DEF CountOK
  <1>9. ASSUME NEW o \in DOMAIN count
        PROVE  count'[o] = Cardinality({q \in Counted' : OutcomeOf(q)' = o})
    <2>1. /\ IsFiniteSet(Of(o)) /\ p \notin Of(o)
          /\ count[o] = Cardinality(Of(o))
      BY <1>5, FS_Subset DEF CountOK, CountersTell
    <2>2. CASE o = answer.outcome
      <3>1. {q \in Counted' : OutcomeOf(q)' = o} = Of(o) \cup {p}
        BY <1>4, <1>6, <1>7, <2>2
      <3>2. Cardinality(Of(o) \cup {p}) = Cardinality(Of(o)) + 1
        BY <2>1, FS_AddElement
      <3> QED
        BY <1>1, <2>1, <2>2, <3>1, <3>2
    <2>3. CASE o # answer.outcome
      <3>1. {q \in Counted' : OutcomeOf(q)' = o} = Of(o)
        BY <1>4, <1>6, <1>7, <2>3
      <3> QED
        BY <1>1, <1>2, <2>1, <2>3, <3>1
    <2> QED
      BY <2>2, <2>3
  <1> QED
    BY <1>1, <1>8, <1>9 DEF CountOK, CountersTell

\* No other step changes the counters.
LEMMA StepCount == ASSUME IInv, CountOK, [Next]_vars PROVE CountOK'
  <1> USE DEF server, client, stream, counters, Become
  <1>b. Bounded /\ session \in [Connection -> SessionState] /\ consumed \in [Connection -> Nat]
    BY Bounds DEF IInv, TypeOK
  <1>1. CASE UNCHANGED vars
    BY <1>1, <1>b, CountKept DEF vars, Bounded
  <1>2. ASSUME NEW c \in Connection,
               Connect(c) \/ Finish(c) \/ Reset(c) \/ Expire(c)
        PROVE  CountOK'
    BY <1>2, <1>b, CountKept DEF Connect, Finish, Reset, Expire, Bounded
  <1>3. ASSUME NEW c \in Connection, NEW r \in Request \cup {Malformed}, Send(c, r)
        PROVE  CountOK'
    <2>1. sent \in [Connection -> Seq(Request \cup {Malformed})]
      BY DEF IInv, TypeOK
    <2>2. \A n \in 1 .. Len(sent[c]) : sent'[c][n] = sent[c][n]
      BY <1>3, <2>1, Appended DEF Send
    <2>3. \A d \in Connection : \A n \in 1 .. consumed[d] : sent'[d][n] = sent[d][n]
      <3>1. \A d \in Connection : d # c => sent'[d] = sent[d]
        BY <1>3, <2>1 DEF Send
      <3>2. \A d \in Connection : 1 .. consumed[d] \subseteq 1 .. Len(sent[d])
        BY <1>b DEF Bounded
      <3> QED
        BY <2>2, <3>1, <3>2
    <2> QED
      BY <1>3, <2>3, CountKept DEF Send
  <1>4. ASSUME NEW c \in Connection, ReadRequest(c)
        PROVE  CountOK'
    BY <1>4, <1>b, CountKept DEF ReadRequest, Bounded
  <1>5. ASSUME NEW c \in Connection,
               ReadEnds(c) \/ ReadFails(c) \/ WriteCompletes(c) \/ WriteFails(c)
        PROVE  CountOK'
    BY <1>5, <1>b, CountKept DEF ReadEnds, ReadFails, WriteCompletes, WriteFails, Bounded
  <1>6. ASSUME NEW c \in Connection, on_read(c)
        PROVE  CountOK'
    <2>1. CASE session[c] # "read"
      BY <1>6, <1>b, <2>1, CountKept DEF on_read, do_close, Bounded
    <2> QED
      BY <1>6, <2>1, CountAnswer
  <1>7. ASSUME NEW c \in Connection, on_write(c)
        PROVE  CountOK'
    BY <1>7, <1>b, CountKept DEF on_write, do_close, do_read, Bounded
  <1>8. CASE AcceptCompletes
    <2>1. Head(backlog) \in Connection /\ session[Head(backlog)] = "queued"
      <3>1. Head(backlog) \in Connection /\ Head(backlog) = backlog[1] /\ 1 \in DOMAIN backlog
        BY <1>8, HeadTailProperties DEF AcceptCompletes, IInv, TypeOK
      <3> QED
        BY <3>1 DEF IInv, BacklogOK
    <2> QED
      BY <1>8, <1>b, <2>1, CountKept DEF AcceptCompletes, Bounded
  <1>9. CASE AcceptFails
    BY <1>9, <1>b, CountKept DEF AcceptFails, Bounded
  <1>10. CASE on_accept
    <2>1. CASE acceptor = "done"
      <3>1. PICK c \in Connection : session[c] = "accepted" /\ do_read(c)
        BY <1>10, <2>1 DEF on_accept
      <3> QED
        BY <1>10, <1>b, <3>1, CountKept DEF on_accept, do_read, Bounded
    <2> QED
      BY <1>10, <1>b, <2>1, CountKept DEF on_accept, Bounded
  <1> QED
    BY <1>1, <1>2, <1>3, <1>4, <1>5, <1>6, <1>7, <1>8, <1>9, <1>10 DEF Next

\* The counters add up for any number of connections and requests.
THEOREM CountersAddUp == Spec => []CountersTell
  <1>1. Init => CountOK
    <2>1. Init => Counted = {}
      BY DEF Init, Counted
    <2>2. ASSUME Init PROVE \A o \in DOMAIN count : {p \in Counted : OutcomeOf(p) = o} = {} /\ count[o] = 0
      BY <2>1, <2>2 DEF Init
    <2> QED
      BY <2>1, <2>2, FS_EmptySet DEF Init, CountOK, CountersTell
  <1>2. CountOK => CountersTell
    BY DEF CountOK
  <1> QED
    BY <1>1, <1>2, Invariance, StepCount, PTL DEF Spec

-----------------------------------------------------------------------------
\* The server and the service answer a request alike.
LEMMA SameAnswers == \A r \in Request : Service!ResponseTo[r] = Handled[r].response
  <1>1. \A r : Service!process_request_parameters(r) = process_request_parameters(r)
    BY DEF Service!process_request_parameters, process_request_parameters
  <1>2. \A r, st, t, b : Service!Response(r, st, t, b) = Response(r, st, t, b)
    BY DEF Service!Response, Response
  <1>3. \A r, re : Service!WithoutBody(r, re) = WithoutBody(r, re)
    BY DEF Service!WithoutBody, WithoutBody, Service!NoBody, NoBody
  <1>4. \A r, w : Service!bad_request(r, w) = bad_request(r, w)
    BY <1>2 DEF Service!bad_request, bad_request
  <1>5. \A r : Service!not_found(r) = not_found(r) /\ Service!main_page(r) = main_page(r)
    BY <1>2, <1>3 DEF Service!not_found, not_found, Service!main_page, main_page
  <1>6. \A r, t, m, u, ts : Service!html_response(r, t, m, u, ts) = html_response(r, t, m, u, ts)
    BY DEF Service!html_response, html_response, Service!Value, Value, Service!Written, Written
  <1>7. \A r, m, u, ts : Service!conversion_response(r, m, u, ts) = conversion_response(r, m, u, ts)
    BY <1>2, <1>3, <1>6 DEF Service!conversion_response, conversion_response, Service!Value, Value
  <1>8. \A r, m, u, ts : Service!convert_request(r, m, u, ts) = convert_request(r, m, u, ts)
    BY <1>7 DEF Service!convert_request, convert_request, Service!Understood, Understood
  <1>9. \A r : Service!handle_request(r) = handle_request(r)
    BY <1>1, <1>4, <1>5, <1>8 DEF Service!handle_request, handle_request,
                                  Service!ConversionPath, ConversionPath
  <1> QED
    BY <1>9 DEF Service!ResponseTo, Handled

\* What a session's step is to the service.
Live(c) == timer[c] = "over" /\ session[c] \in Ready

\* What the abstract service sees of a session that changes.
LEMMA Mapped ==
  ASSUME IInv, NEW c \in Connection, NEW s \in SessionState,
         session' = [session EXCEPT ![c] = s],
         \A d \in Connection : d # c => timer'[d] = timer[d]
  PROVE  /\ \A d \in Connection : d # c => StatusOf(d)' = StatusOf(d) /\ Live(d)' = Live(d)
         /\ s \in {"queued", "accepted"} => StatusOf(c)' = "waiting"
         /\ s \in Ready \cup {"written"} => StatusOf(c)' = "open"
         /\ s \in {"read_end", "read_failed", "write_failed", "closed"} => StatusOf(c)' = "over"
         /\ s \notin Ready => Live(c)' = FALSE
  BY DEF IInv, TypeOK, StatusOf, SessionState, Ready, Live

\* Steps between two states the service does not tell apart.
Unseen == UNCHANGED Service!vars

\* Steps that the abstract service does not see.
LEMMA StaysUnseen ==
  ASSUME UNCHANGED <<sent, fin, gone, answers>>,
         \A d \in Connection : StatusOf(d)' = StatusOf(d) /\ Live(d)' = Live(d)
  PROVE  Unseen
  BY DEF Unseen, Service!vars, Live, Ready

\* Each of the other steps is one of the service: a connection ...
LEMMA ConnectMaps ==
  ASSUME IInv, NEW c \in Connection, Connect(c)
  PROVE  Service!Connect(c)
  <1>1. session' = [session EXCEPT ![c] = "queued"] /\ UNCHANGED timer
    BY DEF Connect, Become
  <1>2. /\ StatusOf(c) = "new" /\ StatusOf(c)' = "waiting" /\ Live(c) = FALSE /\ Live(c)' = FALSE
        /\ \A d \in Connection : d # c => StatusOf(d)' = StatusOf(d) /\ Live(d)' = Live(d)
    BY <1>1, Mapped DEF Connect, StatusOf, SessionState, Ready, Live
  <1> QED
    BY <1>2 DEF Service!Connect, Service!client, Connect, client, stream, Live, Ready

\* A step that ends a session for a reason.
LEMMA EndMaps ==
  ASSUME IInv, NEW c \in Connection, NEW s \in {"read_end", "read_failed", "write_failed", "closed"},
         session' = [session EXCEPT ![c] = s], UNCHANGED <<timer, sent, fin, gone, answers>>,
         StatusOf(c) = "open", Service!MayEnd(c)
  PROVE  Service!End(c)
  <1>1. /\ StatusOf(c)' = "over" /\ Live(c)' = FALSE
        /\ \A d \in Connection : d # c => StatusOf(d)' = StatusOf(d) /\ Live(d)' = Live(d)
    BY Mapped DEF SessionState, Ready
  <1> QED
    BY <1>1 DEF Service!End, Service!client, Live, Ready

\* ... the end of a read ...
LEMMA ReadEndsMaps ==
  ASSUME IInv, NEW c \in Connection, ReadEnds(c) \/ ReadFails(c)
  PROVE  Service!End(c)
  <1>1. Bounded /\ StreamOK(c)
    BY Bounds DEF IInv
  <1>2. PICK s \in {"read_end", "read_failed"} : session' = [session EXCEPT ![c] = s]
    BY DEF ReadEnds, ReadFails, Become
  <1>3. session[c] = "reading" /\ UNCHANGED <<timer, sent, fin, gone, answers>>
    BY DEF ReadEnds, ReadFails, client, stream
  <1>4. StatusOf(c) = "open" /\ consumed[c] = Len(answers[c])
    BY <1>1, <1>3 DEF StatusOf, StreamOK
  <1>5. Service!MayEnd(c)
    <2>1. CASE ReadEnds(c)
      BY <1>1, <1>4, <2>1 DEF ReadEnds, Available, Service!MayEnd, Service!Unanswered, Bounded
    <2>2. CASE ReadFails(c)
      BY <1>1, <1>3, <1>4, <2>2 DEF ReadFails, Available, Service!MayEnd, Service!Unanswered,
                                    Service!NextRequest, Bounded
    <2> QED
      BY <2>1, <2>2
  <1> QED
    BY <1>2, <1>3, <1>4, <1>5, EndMaps

\* ... a write that fails ...
LEMMA WriteFailsMaps ==
  ASSUME IInv, NEW c \in Connection, WriteFails(c)
  PROVE  Service!End(c)
  <1>1. /\ session[c] = "writing" /\ UNCHANGED <<timer, sent, fin, gone, answers>>
        /\ session' = [session EXCEPT ![c] = "write_failed"]
    BY DEF WriteFails, Become, client, stream
  <1>2. StatusOf(c) = "open" /\ Service!MayEnd(c)
    BY <1>1 DEF StatusOf, WriteFails, Service!MayEnd
  <1> QED
    BY <1>1, <1>2, EndMaps

\* ... or completes ...
LEMMA WriteCompletesMaps ==
  ASSUME IInv, NEW c \in Connection, WriteCompletes(c)
  PROVE  Service!Answer(c)
  <1>1. /\ session[c] = "writing" /\ UNCHANGED <<timer, sent, fin, gone>>
        /\ session' = [session EXCEPT ![c] = "written"]
        /\ answers' = [answers EXCEPT ![c] = Append(@, res_[c])]
    BY DEF WriteCompletes, Become, client
  <1>2. /\ Bounded
        /\ consumed[c] = Len(answers[c]) + 1 /\ sent[c][consumed[c]] \in Request
        /\ ~Service!Closing(c) /\ res_[c] = Handled[sent[c][consumed[c]]].response
    BY <1>1, Bounds DEF IInv, StreamOK, Ready
  <1>3. /\ Service!Unanswered(c) /\ Service!NextRequest(c) = sent[c][consumed[c]]
        /\ res_[c] = Service!ResponseTo[Service!NextRequest(c)]
    BY <1>2, SameAnswers DEF Service!Unanswered, Service!NextRequest, Bounded
  <1>4. /\ StatusOf(c) = "open" /\ StatusOf(c)' = "open" /\ Live(c)' = FALSE
        /\ \A d \in Connection : d # c => StatusOf(d)' = StatusOf(d) /\ Live(d)' = Live(d)
    <2>1. "written" \in SessionState /\ "written" \notin Ready
      BY DEF SessionState, Ready
    <2>2. StatusOf(c) = "open"
      BY <1>1 DEF StatusOf
    <2> QED
      BY <1>1, <2>1, <2>2, Mapped
  <1> QED
    BY <1>1, <1>2, <1>3, <1>4 DEF Service!Answer, Service!client, Live, Ready

\* ... or expires.
LEMMA ExpireMaps ==
  ASSUME IInv, NEW c \in Connection, Expire(c)
  PROVE  Service!RunLate(c)
  <1>1. /\ timer[c] = "running" /\ session[c] \in Ready
        /\ timer' = [timer EXCEPT ![c] = "over"] /\ UNCHANGED <<session, sent, fin, gone, answers>>
        /\ timer \in [Connection -> {"off", "running", "over"}]
    BY DEF Expire, Ready, client, stream, IInv, TypeOK
  <1>2. /\ StatusOf(c) = "open" /\ Live(c) = FALSE /\ Live(c)' = TRUE
        /\ \A d \in Connection : StatusOf(d)' = StatusOf(d)
        /\ \A d \in Connection : d # c => Live(d)' = Live(d)
    BY <1>1 DEF StatusOf, Live, Ready
  <1> QED
    BY <1>1, <1>2 DEF Service!RunLate, Service!client, Live, Ready

\* Accepting and answering begin with steps that the service does not see:
\* taking a connection from the backlog, reading, and choosing the response.
LEMMA AcceptCompletesUnseen == ASSUME IInv, AcceptCompletes PROVE Unseen
  <1> DEFINE c == Head(backlog)
  <1>1. /\ c \in Connection /\ session' = [session EXCEPT ![c] = "accepted"]
        /\ UNCHANGED <<timer, sent, fin, gone, answers>>
    BY HeadTailProperties DEF AcceptCompletes, Become, IInv, TypeOK, client, stream
  <1>2. session[c] = "queued"
    <2>1. c = backlog[1] /\ 1 \in DOMAIN backlog
      BY HeadTailProperties DEF AcceptCompletes, IInv, TypeOK
    <2> QED
      BY <2>1 DEF IInv, BacklogOK
  <1> HIDE DEF c
  <1>3. StatusOf(c) = "waiting" /\ Live(c) = FALSE
    BY <1>2 DEF StatusOf, Live, Ready
  <1>4. "accepted" \in SessionState /\ "accepted" \notin Ready
    BY DEF SessionState, Ready
  <1>5. \A d \in Connection : StatusOf(d)' = StatusOf(d) /\ Live(d)' = Live(d)
    BY <1>1, <1>3, <1>4, Mapped
  <1> QED
    BY <1>1, <1>5, StaysUnseen

\* Starting to read is not seen.
LEMMA ReadRequestUnseen ==
  ASSUME IInv, NEW c \in Connection, ReadRequest(c)
  PROVE  Unseen
  <1>1. /\ session[c] = "reading" /\ session' = [session EXCEPT ![c] = "read"]
        /\ UNCHANGED <<timer, sent, fin, gone, answers>>
    BY DEF ReadRequest, Become, client
  <1>2. \A d \in Connection : StatusOf(d)' = StatusOf(d) /\ Live(d)' = Live(d)
    BY <1>1 DEF StatusOf, Live, Ready, IInv, TypeOK
  <1> QED
    BY <1>1, <1>2, StaysUnseen

\* Nor is the handling of what was read.
LEMMA OnReadUnseen ==
  ASSUME IInv, NEW c \in Connection, on_read(c)
  PROVE  Unseen
  <1>1. /\ \/ session[c] = "read" /\ session' = [session EXCEPT ![c] = "writing"]
           \/ /\ session[c] \in {"read_end", "read_failed"}
              /\ session' = [session EXCEPT ![c] = "closed"]
        /\ UNCHANGED <<timer, sent, fin, gone, answers>>
    BY DEF on_read, Answer, do_close, Become, client
  <1>2. \A d \in Connection : StatusOf(d)' = StatusOf(d) /\ Live(d)' = Live(d)
    BY <1>1 DEF StatusOf, Live, Ready, IInv, TypeOK
  <1> QED
    BY <1>1, <1>2, StaysUnseen

\* The session of an accepted connection opens it to the service.
LEMMA OnAcceptMaps ==
  ASSUME IInv, on_accept
  PROVE  Unseen \/ \E c \in Connection : Service!Accept(c)
  <1>1. CASE acceptor = "done"
    <2>1. PICK c \in Connection : session[c] = "accepted" /\ do_read(c)
      BY <1>1 DEF on_accept
    <2>2. /\ session' = [session EXCEPT ![c] = "reading"]
          /\ timer' = [timer EXCEPT ![c] = "running"]
          /\ UNCHANGED <<sent, fin, gone, answers>>
          /\ session \in [Connection -> SessionState]
          /\ timer \in [Connection -> {"off", "running", "over"}]
      BY <2>1 DEF on_accept, do_read, Become, client, stream, IInv, TypeOK
    <2>3. /\ StatusOf(c) = "waiting" /\ StatusOf(c)' = "open"
          /\ Live(c) = FALSE /\ Live(c)' = FALSE
          /\ \A d \in Connection : d # c => StatusOf(d)' = StatusOf(d) /\ Live(d)' = Live(d)
      BY <2>1, <2>2 DEF StatusOf, Live, Ready
    <2>4. Service!Accept(c)
      BY <2>2, <2>3 DEF Service!Accept, Service!client, Live, Ready
    <2> QED
      BY <2>4
  <1>2. CASE acceptor # "done"
    BY <1>2 DEF on_accept, Unseen, Service!vars, client, stream, StatusOf
  <1> QED
    BY <1>1, <1>2

\* After a response that closes, the session ends for that reason; after
\* another one it waits for the next request, with a new timer.
LEMMA OnWriteMaps ==
  ASSUME IInv, NEW c \in Connection, on_write(c)
  PROVE  Unseen \/ Service!End(c)
  <1>0. /\ session \in [Connection -> SessionState]
        /\ timer \in [Connection -> {"off", "running", "over"}]
        /\ StreamOK(c)
        /\ UNCHANGED <<sent, fin, gone, answers>>
    BY DEF IInv, TypeOK, on_write, client
  <1>1. CASE session[c] = "write_failed"
    <2>1. session' = [session EXCEPT ![c] = "closed"] /\ UNCHANGED timer
      BY <1>1 DEF on_write, do_close, Become
    <2>2. \A d \in Connection : StatusOf(d)' = StatusOf(d) /\ Live(d)' = Live(d)
      BY <1>0, <1>1, <2>1 DEF StatusOf, Live, Ready
    <2> QED
      BY <1>0, <2>2, StaysUnseen
  <1>2. CASE session[c] = "written" /\ res_[c].close
    <2>1. session' = [session EXCEPT ![c] = "closed"] /\ UNCHANGED timer
      BY <1>2 DEF on_write, do_close, Become
    <2>2. StatusOf(c) = "open" /\ Service!MayEnd(c)
      BY <1>0, <1>2 DEF StatusOf, StreamOK, Service!MayEnd, Service!Closing
    <2> QED
      BY <1>0, <2>1, <2>2, EndMaps
  <1>3. CASE session[c] = "written" /\ ~res_[c].close
    <2>1. session' = [session EXCEPT ![c] = "reading"] /\ timer' = [timer EXCEPT ![c] = "running"]
      BY <1>3 DEF on_write, do_read, Become
    <2>2. \A d \in Connection : StatusOf(d)' = StatusOf(d) /\ Live(d)' = Live(d)
      BY <1>0, <1>3, <2>1 DEF StatusOf, Live, Ready
    <2> QED
      BY <1>0, <2>2, StaysUnseen
  <1> QED
    BY <1>1, <1>2, <1>3 DEF on_write

\* What a client does, it does to the service as well.
LEMMA ClientMaps ==
  ASSUME IInv, NEW c \in Connection,
         \/ Finish(c) \/ Reset(c)
         \/ \E r \in Request \cup {Malformed} : Send(c, r)
  PROVE  Service!Client(c)
  <1>1. /\ UNCHANGED <<session, timer, answers>>
        /\ session[c] # "new"
    BY DEF Send, Finish, Reset, Connected, stream
  <1>2. /\ StatusOf(c) # "new"
        /\ \A d \in Connection : StatusOf(d)' = StatusOf(d) /\ Live(d)' = Live(d)
    BY <1>1 DEF StatusOf, Live
  <1>3. \/ \E r \in Request \cup {Malformed} :
             sent' = [sent EXCEPT ![c] = Append(@, r)] /\ UNCHANGED <<fin, gone>>
        \/ fin' = [fin EXCEPT ![c] = TRUE] /\ UNCHANGED <<sent, gone>>
        \/ gone' = [gone EXCEPT ![c] = TRUE] /\ UNCHANGED <<sent, fin>>
    BY DEF Send, Finish, Reset
  <1> QED
    BY <1>1, <1>2, <1>3 DEF Service!Client, Live, Ready

\* So every step maps to a step of the service or to none.
LEMMA StepMaps == ASSUME IInv, [Next]_vars PROVE [Service!Next]_(Service!vars)
  <1>1. CASE UNCHANGED vars
    BY <1>1 DEF vars, server, client, stream, Service!vars, StatusOf
  <1>2. CASE Next
    <2>1. CASE AcceptCompletes \/ AcceptFails \/ on_accept
      <3>1. AcceptFails => Unseen
        BY DEF AcceptFails, Unseen, Service!vars, client, stream, StatusOf
      <3> QED
        BY <2>1, <3>1, AcceptCompletesUnseen, OnAcceptMaps DEF Service!Next, Unseen
    <2>2. ASSUME NEW c \in Connection,
                 \/ Connect(c) \/ Finish(c) \/ Reset(c)
                 \/ \E r \in Request \cup {Malformed} : Send(c, r)
                 \/ ReadRequest(c) \/ ReadEnds(c) \/ ReadFails(c)
                 \/ WriteCompletes(c) \/ WriteFails(c) \/ Expire(c)
                 \/ on_read(c) \/ on_write(c)
          PROVE  Unseen \/ Service!Next
      BY <2>2, ConnectMaps, ClientMaps, ReadRequestUnseen, ReadEndsMaps, WriteCompletesMaps,
         WriteFailsMaps, ExpireMaps, OnReadUnseen, OnWriteMaps DEF Service!Next
    <2> QED
      BY <1>2, <2>1, <2>2 DEF Next, Unseen
  <1> QED
    BY <1>1, <1>2

\* The server implements the service: whatever arrives together, is late, is
\* cut short or reset, requests are answered in their order, each once and
\* with what handle_request says, and connections end for a reason.
THEOREM Refinement == Spec => ImplementsService
  <1>1. Init => Service!Init
    BY DEF Init, Service!Init, StatusOf
  <1> QED
    BY <1>1, Invariance, StepMaps, PTL DEF Spec, ImplementsService, Service!Spec
=============================================================================
