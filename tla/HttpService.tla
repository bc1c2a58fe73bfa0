----------------------------- MODULE HttpService ------------------------------
(***************************************************************************)
(* What the web server promises its clients, whatever it does inside: the  *)
(* requests of a connection are answered one by one in the order they came *)
(* in, each with what handle_request says, and the server ends a           *)
(* connection for the reasons listed in MayEnd only.                       *)
(***************************************************************************)
EXTENDS WebRequest

CONSTANTS Connection, Request, Malformed

VARIABLES
  status,   \* of each connection: "new", "waiting", "open", "over"
  sent,     \* the requests the client has sent, malformed ones included
  fin,      \* it has closed its side after them
  gone,     \* it has reset the connection
  late,     \* 30 seconds have passed since the last exchange
  answers   \* the responses it was sent

vars == <<status, sent, fin, gone, late, answers>>
client == <<sent, fin, gone>>

ResponseTo == [req \in Request |-> handle_request(req).response]

Closing(c) == answers[c] # <<>> /\ answers[c][Len(answers[c])].close
NextRequest(c) == sent[c][Len(answers[c]) + 1]
Unanswered(c) == Len(answers[c]) < Len(sent[c])

MayEnd(c) == \/ Closing(c)
             \/ Unanswered(c) /\ NextRequest(c) = Malformed
             \/ ~Unanswered(c) /\ fin[c]
             \/ gone[c]
             \/ late[c]

Init == /\ status = [c \in Connection |-> "new"]
        /\ sent = [c \in Connection |-> <<>>]
        /\ fin = [c \in Connection |-> FALSE]
        /\ gone = [c \in Connection |-> FALSE]
        /\ late = [c \in Connection |-> FALSE]
        /\ answers = [c \in Connection |-> <<>>]

Connect(c) == /\ status[c] = "new"
              /\ status' = [status EXCEPT ![c] = "waiting"]
              /\ UNCHANGED <<client, late, answers>>

\* The client sends, closes its side or resets the connection at any time.
Client(c) == /\ status[c] # "new"
             /\ \/ \E r \in Request \cup {Malformed} :
                     sent' = [sent EXCEPT ![c] = Append(@, r)] /\ UNCHANGED <<fin, gone>>
                \/ fin' = [fin EXCEPT ![c] = TRUE] /\ UNCHANGED <<sent, gone>>
                \/ gone' = [gone EXCEPT ![c] = TRUE] /\ UNCHANGED <<sent, fin>>
             /\ UNCHANGED <<status, late, answers>>

RunLate(c) == /\ status[c] = "open" /\ ~late[c]
              /\ late' = [late EXCEPT ![c] = TRUE]
              /\ UNCHANGED <<status, client, answers>>

Accept(c) == /\ status[c] = "waiting"
             /\ status' = [status EXCEPT ![c] = "open"]
             /\ UNCHANGED <<client, late, answers>>

\* An answer gives the client another 30 seconds.
Answer(c) == /\ status[c] = "open"
             /\ Unanswered(c) /\ ~Closing(c) /\ NextRequest(c) \in Request
             /\ answers' = [answers EXCEPT ![c] = Append(@, ResponseTo[NextRequest(c)])]
             /\ late' = [late EXCEPT ![c] = FALSE]
             /\ UNCHANGED <<status, client>>

End(c) == /\ status[c] = "open"
          /\ MayEnd(c)
          /\ status' = [status EXCEPT ![c] = "over"]
          /\ late' = [late EXCEPT ![c] = FALSE]
          /\ UNCHANGED <<client, answers>>

Next == \E c \in Connection : \/ Connect(c) \/ Client(c) \/ RunLate(c)
                              \/ Accept(c) \/ Answer(c) \/ End(c)

Spec == Init /\ [][Next]_vars
=============================================================================
