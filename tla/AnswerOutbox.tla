---------------------------- MODULE AnswerOutbox ----------------------------
(***************************************************************************)
(* What McpDelivery promises the reader of a chat and the operator who     *)
(* reads the rows, with no word of tasks, claims, leases or attempts: each *)
(* segment is given to the provider once at most, and as long as its row   *)
(* is open after all earlier ones; a row is closed once, says "sent" or    *)
(* "expired" only if that is so, and keeps to what it says, but for an     *)
(* operator who settles what nobody knows.                                 *)
(***************************************************************************)
EXTENDS Naturals, Sequences

CONSTANT Lengths  \* numbers of segments an answer may have

VARIABLES
  words,  \* for each segment, "open" or what its row says became of it
  chat    \* the segments the provider took, in its order

Words == {"open", "sent", "delivery_unknown", "cancelled", "expired", "decided",
          "gone"}

Given(i) == \E k \in DOMAIN chat : chat[k] = i

Init == words = <<>> /\ chat = <<>>

Answer(n) ==
  /\ words' = words \o [k \in 1 .. n |-> "open"]
  /\ UNCHANGED chat

\* A slow process may still send what was given up on, but nothing that was
\* said to have been sent or to be too late.
Give(i) ==
  /\ ~Given(i)
  /\ words[i] \notin {"sent", "expired"}
  /\ words[i] = "open" => \A k \in DOMAIN chat : chat[k] < i
  /\ chat' = Append(chat, i)
  /\ UNCHANGED words

\* What an open row may come to say.
Verdict(i) ==
  {"cancelled", "delivery_unknown", IF Given(i) THEN "sent" ELSE "expired"}

Successors(i) ==
  {words[i], "gone"}
    \union (IF words[i] = "open" THEN Verdict(i) ELSE {})
    \union (IF words[i] = "delivery_unknown" THEN {"decided"} ELSE {})

Settle ==
  /\ words' \in [DOMAIN words -> Words]
  /\ \A i \in DOMAIN words : words'[i] \in Successors(i)
  /\ UNCHANGED chat

Next ==
  \/ \E n \in Lengths : Answer(n)
  \/ \E i \in DOMAIN words : Give(i)
  \/ Settle

Spec == Init /\ [][Next]_<<words, chat>>
=============================================================================
