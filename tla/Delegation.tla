----------------------------- MODULE Delegation -----------------------------
(***************************************************************************)
(* NIP-26 tokens (nip26.c): whether a delegator lets an event be published *)
(* on his behalf.                                                          *)
(*                                                                         *)
(* A conditions text is the sequence of its parts between the ampersands,  *)
(* a part [key, ops, value, plain]: what stands before the first of the    *)
(* operators =, <, >, the operators in their order, the number behind them *)
(* (0 where there is none), and whether that is the digits of the number   *)
(* and nothing else, as %d prints them.                                    *)
(***************************************************************************)
EXTENDS Integers, Sequences, Functions

CONSTANTS
  PartsOf,         \* the parts of each conditions text: a function
  LengthOf,        \* its length in bytes: a function
  Token,           \* the signed tokens <<delegator, delegatee, conditions, sig>>
  MaxTokenLength   \* bytes of delegation_str: 512

Part == [key : STRING, ops : Seq({"=", "<", ">"}), value : Int, plain : BOOLEAN]

ASSUME PartsAreParts == \A conditions \in DOMAIN PartsOf : PartsOf[conditions] \in Seq(Part)

(* strchr looks for =, then <, then >. *)
Operator(part) ==
  IF \E i \in DOMAIN part.ops : part.ops[i] = "=" THEN "="
  ELSE IF \E i \in DOMAIN part.ops : part.ops[i] = "<" THEN "<"
  ELSE IF part.ops # << >> THEN ">" ELSE "none"

(* The text before the operator is the key if no other stands in between.  *)
HasKey(part, key) == part.key = key /\ part.ops # << >> /\ part.ops[1] = Operator(part)

(* What is compared: texts for a kind, so that 01 is not 1, and for a time *)
(* the number. When more operators follow strcmp finds no kind, and strtol 0. *)
IsKind(part, kind) == Len(part.ops) = 1 /\ part.plain /\ part.value = kind
Timestamp(part)    == IF Len(part.ops) = 1 THEN part.value ELSE 0

(* One turn of the strtok loop; ok is FALSE once it has returned false. *)
CheckPart(state, part, ev) ==
  IF HasKey(part, "kind") /\ Operator(part) = "="
  THEN [state EXCEPT !.has_kind = TRUE, !.kind_matched = @ \/ IsKind(part, ev.kind)]
  ELSE IF HasKey(part, "created_at")
  THEN [state EXCEPT !.ok = /\ @
                            /\ Operator(part) = "<" => ev.created_at < Timestamp(part)
                            /\ Operator(part) = ">" => ev.created_at > Timestamp(part)]
  ELSE state

ConditionsHold(ev, conditions) ==
  LET parts == PartsOf[conditions]
      after[n \in 0..Len(parts)] ==
        IF n = 0 THEN [ok |-> TRUE, has_kind |-> FALSE, kind_matched |-> FALSE]
        ELSE CheckPart(after[n - 1], parts[n], ev)
      end == after[Len(parts)]
  IN  end.ok /\ (end.has_kind => end.kind_matched)

(* "nostr:delegation:" and a key and a colon come before the conditions.   *)
(* A text that is cut for the loop is too long to be signed.               *)
FitsToken(conditions) == 17 + 64 + 1 + LengthOf[conditions] < MaxTokenLength

nip26_check_delegation(ev, delegator, conditions, sig) ==
  /\ ConditionsHold(ev, conditions)
  /\ FitsToken(conditions)
  /\ <<delegator, ev.pubkey, conditions, sig>> \in Token

-----------------------------------------------------------------------------
(***************************************************************************)
(* What a token allows, as nip26.h:27-33 puts it: one of the kinds it      *)
(* names, if it names any, and a time within all of its bounds.            *)
(***************************************************************************)
Kinds(conditions) ==
  {part.value : part \in {p \in Range(PartsOf[conditions]) : p.key = "kind" /\ p.ops = <<"=">>}}

Allows(conditions, ev) ==
  /\ Kinds(conditions) # {} => ev.kind \in Kinds(conditions)
  /\ \A part \in Range(PartsOf[conditions]) :
       part.key = "created_at" =>
         /\ part.ops = <<"<">> => ev.created_at < part.value
         /\ part.ops = <<">">> => ev.created_at > part.value
=============================================================================
