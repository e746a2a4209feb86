----------------------------- MODULE ReceiptLog -----------------------------
(***************************************************************************)
(* What a receipt collector promises to those who later compare its log    *)
(* with the answers of the clients: both only grow, each request is in     *)
(* each of them once, and whichever comes second agrees with the first.    *)
(* The collector is stopped after traffic has drained, when all requests   *)
(* are in the log, or killed before.                                       *)
(***************************************************************************)
CONSTANTS Entries,      \* what can be logged:  [req, bytes, complete, error]
          Answers,      \* what a client can take for a whole answer:  [req, bytes]
          Requests,
          LogsFirst,    \* is a request logged before its client has the answer?
          VouchesWhole, \* does an answer say that the transfer succeeded?
          MayBeKilled

VARIABLES log, answers,
          state         \* "open", "drained", "killed"

vars == <<log, answers, state>>

Init == log = {} /\ answers = {} /\ state = "open"

Logged(r) == \E x \in log : x.req = r

Agree(x, a) ==
    x.req = a.req => x.bytes = a.bytes /\ (VouchesWhole => x.complete /\ ~x.error)

Append(x) ==
    /\ state = "open" /\ ~Logged(x.req)
    /\ \A a \in answers : Agree(x, a)
    /\ log' = log \cup {x}
    /\ UNCHANGED <<answers, state>>

Answer(a) ==
    /\ \A b \in answers : b.req # a.req
    /\ \A x \in log : Agree(x, a)
    /\ LogsFirst => Logged(a.req) \/ state = "killed"
    /\ answers' = answers \cup {a}
    /\ UNCHANGED <<log, state>>

Drain == /\ state = "open" /\ \A r \in Requests : Logged(r)
         /\ state' = "drained"
         /\ UNCHANGED <<log, answers>>

Kill == /\ MayBeKilled /\ state = "open"
        /\ state' = "killed"
        /\ UNCHANGED <<log, answers>>

Next == \/ \E x \in Entries : Append(x)
        \/ \E a \in Answers : Answer(a)
        \/ Drain \/ Kill

Spec == Init /\ [][Next]_vars
=============================================================================
