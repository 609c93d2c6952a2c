---------------------------- MODULE MCDeadlines ----------------------------
\* An instance of Deadlines: a request that executes a command that waits for
\* its work, then one that does not; either executes others, one of them has
\* no timeout of its own.
EXTENDS Deadlines

MCCalls == {"user", "account", "card", "order", "audit"}

MCNested ==
  [w \in MCCalls \cup {"request"} |->
     CASE w = "request" -> <<"user", "card">>
       [] w = "user"    -> <<"account">>
       [] w = "card"    -> <<"order", "audit">>
       [] OTHER         -> << >>]

MCTimeout ==
  [c \in MCCalls |->
     CASE c \in {"user", "card"} -> 2
       [] c \in {"account", "order"} -> 1
       [] c = "audit" -> 0]

\* account and order are executions of one command under one cache key.
MCSame ==
  [c \in MCCalls |-> IF c \in {"account", "order"} THEN {"account", "order"} ELSE {}]
=============================================================================
