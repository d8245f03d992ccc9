------------------------------ MODULE MessageDeque -----------------------------
(***************************************************************************)
(* What the buffer of a message queue promises (module Dispatch takes it   *)
(* for granted): a sequence of messages without a bound.                   *)
(***************************************************************************)
EXTENDS Naturals, Sequences

CONSTANT Message

VARIABLES
    content,  \* the messages, the next one to be popped first
    result    \* what the last operation returned: a message, or "none"

vars == <<content, result>>

Empty == content = <<>> /\ result = "none"

Pop ==
    \/ content = <<>> /\ result' = "none" /\ UNCHANGED content
    \/ content # <<>> /\ result' = Head(content) /\ content' = Tail(content)

PushTail == \E m \in Message : content' = Append(content, m) /\ result' = "none"

PushHead == \E m \in Message : content' = <<m>> \o content /\ result' = "none"

Next == Pop \/ PushTail \/ PushHead

Deque == Empty /\ [][Next]_vars
=============================================================================
