------------------------------ MODULE SealRedis ------------------------------
(***************************************************************************)
(* The Redis list commands the Seal services use.  Redis is external: each *)
(* operator is read off the way src/apps/seal calls the command.  A list   *)
(* is a sequence whose head is the LEFT end.                               *)
(*                                                                         *)
(* A command is one atomic step of the server, but its caller sees one of  *)
(* four outcomes, because the connection can break and because the         *)
(* go-redis client, built without MaxRetries in both services, sends a     *)
(* command again after a network error:                                    *)
(*   "ok"     applied once, the caller sees success                        *)
(*   "twice"  applied, sent again and applied again, success               *)
(*   "lost"   not applied, the caller sees an error                        *)
(*   "torn"   applied, but the caller sees an error                        *)
(***************************************************************************)
EXTENDS Naturals, Sequences

Outcome == {"ok", "twice", "lost", "torn"}

(* What the caller's "err != nil" test sees. *)
IsError(o) == o \in {"lost", "torn"}

(* How often the server applied the command. *)
Times(o) == CASE o = "lost"  -> 0
              [] o = "twice" -> 2
              [] OTHER       -> 1

Copies(x, n) == [i \in 1 .. n |-> x]

(* LPUSH and RPUSH of x with outcome o on the list q. *)
LPush(q, x, o) == Copies(x, Times(o)) \o q
RPush(q, x, o) == q \o Copies(x, Times(o))

(* The elements of a list. *)
Elems(q) == {q[i] : i \in DOMAIN q}

(* No element occurs twice in the list. *)
NoRepeat(q) == \A i, j \in DOMAIN q : q[i] = q[j] => i = j

=============================================================================
