------------------------------ MODULE Messages ------------------------------
(***************************************************************************)
(* The messages that are buffered in nodes (message.go), what they do to   *)
(* the value of their key, and how a group of them is folded into one.     *)
(*                                                                         *)
(* The key of a message is where it is kept; see BETree and LeafMerge.  An *)
(* upsert function maps what is there, a value or Absent, to a value.      *)
(***************************************************************************)
EXTENDS Integers, Sequences

CONSTANTS
  Value,     \* the values
  Fns,       \* the upsert functions callers use, each in [Opt -> Value]
  Absent     \* not a value: the key is not there

Opt == Value \cup {Absent}

ASSUME MessagesAssumption == Absent \notin Value /\ Fns \subseteq [Opt -> Value]

MsgPut(v, counted) == [kind |-> "put", val |-> v, counted |-> counted]
MsgDelete == [kind |-> "del"]
MsgUpsert(f) == [kind |-> "ups", fn |-> f]

Msg ==
  [kind : {"put"}, val : Value, counted : BOOLEAN]
    \cup [kind : {"del"}] \cup [kind : {"ups"}, fn : Fns]

(* What one message makes of a key's value. *)
Apply(m, o) ==
  CASE m.kind = "put" -> m.val
    [] m.kind = "del" -> Absent
    [] m.kind = "ups" -> m.fn[o]

(* The values a key goes through under a sequence of messages. *)
Run(msgs, o) ==
  LET run[i \in 0..Len(msgs)] ==
        IF i = 0 THEN o ELSE Apply(msgs[i], run[i-1])
  IN  run

After(msgs, o) == Run(msgs, o)[Len(msgs)]

(* The function that applies f, then g to what it returned. *)
Compose_Swapped(f, g) == [o \in Opt |-> f[g[o]]]

Compose(f, g) == [o \in Opt |-> g[f[o]]]

(* resolveKeyGroup: one message for a non-empty group of the same key. *)
resolveKeyGroup(group) ==
  LET fold[i \in 1..Len(group)] ==
        LET m == group[i]
            prev == fold[i-1]
        IN  IF i = 1 \/ m.kind # "ups" THEN m
            ELSE CASE prev.kind = "put" -> [prev EXCEPT !.val = m.fn[@]]
                   [] prev.kind = "del" -> MsgPut(m.fn[Absent], FALSE)
                   [] prev.kind = "ups" -> MsgUpsert(Compose(prev.fn, m.fn))
  IN  fold[Len(group)]
=============================================================================
