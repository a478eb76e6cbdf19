----------------------------- MODULE AnswerOnce -----------------------------
(* What X-Idempotency-Key promises a client: a key of a user is bound to at *)
(* most one payload and one answer, the first that was recorded.  A call    *)
(* that names the key gets that answer if it sends that payload, is told of *)
(* a conflict if it does not, or gets no answer at all.                     *)
EXTENDS Naturals

CONSTANTS Call,     \* calls of the API
          Name,     \* what a call names: a user, and a key or none
          Unnamed,  \* the names of calls without a key
          Payload, Answer,
          NoAnswer, Conflict

VARIABLES asked,    \* the name and payload of each call made so far
          bound,    \* bindings of a name
          reply     \* what each call has told its client

\* Has the name a binding?
Taken(n) == \E b \in bound : b.name = n
Reply(c, a) == reply[c] = NoAnswer /\ reply' = [reply EXCEPT ![c] = a]

Ask(c, n, p) ==
  /\ c \notin DOMAIN asked
  /\ asked' = [d \in DOMAIN asked \union {c} |->
                IF d = c THEN [name |-> n, payload |-> p] ELSE asked[d]]
  /\ UNCHANGED <<bound, reply>>

\* The first answer for a name is bound to it and given.
Bind(c, a) ==
  LET q == asked[c] IN
  /\ c \in DOMAIN asked
  /\ q.name \notin Unnamed /\ ~Taken(q.name)
  /\ bound' = bound \union {[name |-> q.name, payload |-> q.payload, answer |-> a]}
  /\ Reply(c, a)
  /\ UNCHANGED asked

Repeat(c) ==
  /\ c \in DOMAIN asked
  /\ \E b \in bound : /\ b.name = asked[c].name
                      /\ b.payload = asked[c].payload
                      /\ Reply(c, b.answer)
  /\ UNCHANGED <<asked, bound>>

Refuse(c) ==
  /\ c \in DOMAIN asked
  /\ \E b \in bound : b.name = asked[c].name /\ b.payload # asked[c].payload
  /\ Reply(c, Conflict)
  /\ UNCHANGED <<asked, bound>>

AnswerUnnamed(c, a) ==
  /\ c \in DOMAIN asked
  /\ asked[c].name \in Unnamed
  /\ Reply(c, a)
  /\ UNCHANGED <<asked, bound>>

Next ==
  \E c \in Call :
    \/ \E n \in Name, p \in Payload : Ask(c, n, p)
    \/ \E a \in Answer : Bind(c, a) \/ AnswerUnnamed(c, a)
    \/ Repeat(c)
    \/ Refuse(c)

Init ==
  /\ asked = [c \in {} |-> {}]
  /\ bound = {}
  /\ reply = [c \in Call |-> NoAnswer]

Spec == Init /\ [][Next]_<<asked, bound, reply>>
=============================================================================
