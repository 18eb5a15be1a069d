------------------------------ MODULE LogFormat ------------------------------
(***************************************************************************)
(* One call of Logger::log() (logger/logging.h): the two overloads walk    *)
(* the format, push its characters and the values for its % placeholders   *)
(* one after the other, and give up on a wrong number of values.  What is  *)
(* pushed goes to the queue of Logger, in this order.                      *)
(*                                                                         *)
(* A value is the sequence of elements pushValue() makes of it: one for a  *)
(* number or a character, one per character (perhaps none) for a string.   *)
(***************************************************************************)
EXTENDS Naturals, Sequences, FiniteSets, SequencesExt

CONSTANTS
  Char,     (* the characters of a format other than %    *)
  Percent,  (* the character %                            *)
  Formats,  (* the format strings log() is called with    *)
  Element,  (* the elements of the values                 *)
  ArgLists  (* the lists of values it is called with      *)

ASSUME PercentAssumption == Percent \notin Char
ASSUME FormatsAssumption == Formats \subseteq Seq(Char \cup {Percent})
ASSUME ArgListsAssumption == ArgLists \subseteq Seq(Seq(Element))

VARIABLES
  format, values,  (* the arguments of the outermost call            *)
  s,               (* the rest of the format                         *)
  args,            (* the values not yet pushed; none: log(s)        *)
  pushed,          (* the elements pushed                            *)
  pc

callVars == <<format, values, s, args, pushed, pc>>

CallInit ==
  /\ format \in Formats
  /\ values \in ArgLists
  /\ s = format
  /\ args = values
  /\ pushed = <<>>
  /\ pc = "log"

Push(elems) == pushed' = pushed \o elems

-----------------------------------------------------------------------------
(* Plausible bugs. *)

AfterEscapeHalf == Tail(s)       (* only one of the two % is skipped     *)

-----------------------------------------------------------------------------
AfterEscape == Tail(Tail(s))

(* %% in either overload: one % is skipped, one pushed. *)
Escape ==
  /\ pc = "log"
  /\ Len(s) > 1 /\ s[1] = Percent /\ s[2] = Percent
  /\ Push(<<s[2]>>)
  /\ s' = AfterEscape
  /\ UNCHANGED <<format, values, args, pc>>

(* Any other character is pushed. *)
Literal ==
  /\ pc = "log"
  /\ s # <<>> /\ s[1] # Percent
  /\ Push(<<s[1]>>)
  /\ s' = Tail(s)
  /\ UNCHANGED <<format, values, args, pc>>

(* A % that is not escaped. *)
Placeholder == s # <<>> /\ s[1] = Percent /\ ~(Len(s) > 1 /\ s[2] = Percent)

Pop == Tail(args)

(* log(s, value, args...): pushValue(value), log(s + 1, args...). *)
Substitute ==
  /\ pc = "log"
  /\ Placeholder
  /\ args # <<>>
  /\ Push(Head(args))
  /\ args' = Pop
  /\ s' = Tail(s)
  /\ UNCHANGED <<format, values, pc>>

(* log(s) at a placeholder: FATAL. *)
Missing ==
  /\ pc = "log"
  /\ args = <<>>
  /\ Placeholder
  /\ pc' = "missing"
  /\ UNCHANGED <<format, values, s, args, pushed>>

(* The end of the format: log(s) returns, log(s, value, args...) is FATAL. *)
End == IF args = <<>> THEN "returned" ELSE "extra"

EndOfFormat ==
  /\ pc = "log"
  /\ s = <<>>
  /\ pc' = End
  /\ UNCHANGED <<format, values, s, args, pushed>>

CallNext == Escape \/ Literal \/ Substitute \/ Missing \/ EndOfFormat

CallSpec == CallInit /\ [][CallNext]_callVars

-----------------------------------------------------------------------------
(* What the text should be, said of the whole format f at once: in a run   *)
(* of % characters every second one stands for itself, and the last one of *)
(* a run of odd length is a placeholder.                                   *)
RunLength(f, p) == Cardinality({q \in 1 .. p : \A r \in q .. p : f[r] = Percent})

Places(f) ==
  {p \in DOMAIN f : /\ RunLength(f, p) % 2 = 1
                    /\ p + 1 \in DOMAIN f => f[p + 1] # Percent}

PlacesUpTo(f, p) == Cardinality({q \in Places(f) : q <= p})

(* What the character at p contributes, given the values v. *)
ElementsAt(f, v, p) ==
  IF p \in Places(f) THEN v[PlacesUpTo(f, p)]
  ELSE IF RunLength(f, p) % 2 = 1 THEN <<>>
  ELSE <<f[p]>>

Text(f, v) == FlattenSeq([p \in DOMAIN f |-> ElementsAt(f, v, p)])

(* A call returns if and only if there are as many values as placeholders, *)
(* and has then pushed the text they stand for.  It dies of the complaint  *)
(* that is true.                                                           *)
CallAsWritten ==
  /\ pc = "returned" => /\ Cardinality(Places(format)) = Len(values)
                        /\ pushed = Text(format, values)
  /\ pc = "extra"    => Cardinality(Places(format)) < Len(values)
  /\ pc = "missing"  => Cardinality(Places(format)) > Len(values)

=============================================================================
