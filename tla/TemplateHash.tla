---------------------------- MODULE TemplateHash ----------------------------
(***************************************************************************)
(* The template part of a translation file: what TranslationContent dumps  *)
(* of it (asJson), the hash of the dump (calculateTpHash) that the ID      *)
(* database knows the template by, and the numbering of its messages       *)
(* (readMessages, get_pot_length) that the IDs of the template follow.     *)
(***************************************************************************)
EXTENDS Integers, Sequences, SequencesExt, FiniteSetsExt

CONSTANT
  Contents  \* Contents[b]: the file with number b, [header, date, messages]; 0 is the null hash

(* A header is "ok", "noMessages" (there is none), "corrupt" (its text does not begin with a letter) *)
(* or "noDate" (it has no POT-Creation-Date). A message has its original text, what else the program *)
(* text says about it (notes: comments, formats, range; filepos: <<file, line>>, -1 for no line),    *)
(* its translation, and whether it is obsolete.                                                      *)
ASSUME ContentsAssumption ==
  /\ DOMAIN Contents \subseteq Nat \ {0}
  /\ \A b \in DOMAIN Contents :
       /\ Contents[b].header \in {"ok", "noMessages", "corrupt", "noDate"}
       /\ Contents[b].messages \in Seq(Range(Contents[b].messages))
       /\ \A m \in Range(Contents[b].messages) :
            /\ DOMAIN m = {"orig", "notes", "filepos", "trans", "obsolete"} /\ m.obsolete \in BOOLEAN
            /\ m.filepos \in Seq(Range(m.filepos)) /\ \A e \in Range(m.filepos) : e = <<e[1], e[2]>>

(* templateHeaderAsJson: the exception that is thrown.  Three kinds of file are left out, of which  *)
(* calculateTpHash does not return: one that the parser does not accept (GettextParserException),   *)
(* one without a newline behind the date of its header (an assertion), and one with a second header *)
(* (runtime_error). None of them gets a hash; they end the tools, which catch neither.              *)
HeaderException(header) ==
  CASE header \in {"noMessages", "corrupt"} -> "ExceptionNotPo"
    [] header = "noDate"                    -> "ExceptionPoHeaderIncomplete"
    [] OTHER                                -> "none"

(* The entries stay in the order of the file; a line that is not known is left out. *)
fileposEntriesAsJson(filepos) ==
  [i \in DOMAIN filepos |-> IF filepos[i][2] = -1 THEN <<filepos[i][1]>> ELSE filepos[i]]

(* Each message by itself; an obsolete one gives no value. *)
templateMessageAsString(m, includeTranslations) ==
  IF m.obsolete THEN <<>>
  ELSE << [orig |-> m.orig, notes |-> m.notes, filepos |-> fileposEntriesAsJson(m.filepos),
           msgstr |-> IF includeTranslations THEN <<m.trans>> ELSE <<>>] >>

asJson(po, includeTranslations) ==
  LET thrown == HeaderException(po.header)
  IN  [thrown   |-> thrown,
       date     |-> IF thrown = "none" THEN po.date ELSE 0,
       messages |-> IF thrown # "none" THEN <<>>
                    ELSE FlattenSeq([i \in DOMAIN po.messages |->
                           templateMessageAsString(po.messages[i], includeTranslations)])]

(* Hashes: 0 is the null hash, that of a blob is its number, that of a dump is negative. *)
sha1_buffer(dump, includeTranslations) ==
  - Min({b \in DOMAIN Contents : asJson(Contents[b], includeTranslations) = dump})

(* Mutant of calculateTpHash: the dump has the translations as well. *)
hashWithTranslations ==
  [b \in DOMAIN Contents |->
    LET dump == asJson(Contents[b], TRUE) IN IF dump.thrown # "none" THEN 0 ELSE sha1_buffer(dump, TRUE)]

(* The two exceptions are caught, and the hash is null. *)
calculateTpHash ==
  [b \in DOMAIN Contents |->
    LET dump == asJson(Contents[b], FALSE) IN IF dump.thrown # "none" THEN 0 ELSE sha1_buffer(dump, FALSE)]

(* readMessages: the messages that are not obsolete, in the order of their numbers. *)
readMessages(b) ==
  LET messages == Contents[b].messages
  IN  FlattenSeq([i \in DOMAIN messages |-> IF messages[i].obsolete THEN <<>> ELSE <<messages[i]>>])

(* get_pot_length: what an ID range of the template is as long as. *)
get_pot_length(b) == Cardinality({i \in DOMAIN Contents[b].messages : ~Contents[b].messages[i].obsolete})
=============================================================================
