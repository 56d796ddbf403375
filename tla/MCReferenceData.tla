----------------------------- MODULE MCReferenceData ----------------------------
(***************************************************************************)
(* Small instances of what dictionaries refer to, the lexicon, the gazetteers   *)
(* and their abbreviations, and of the tables that everything is kept in.  They  *)
(* share no state, so a behaviour runs one of them while the others wait in      *)
(* their initial states.                                                     *)
(***************************************************************************)
EXTENDS ReferenceData

CONSTANTS
  w1, w2,                            \* words of the lexicon
  a1, a2, g1, g2, c1, c2, v1, v2     \* units of the gazetteers

Row(kind, word, standard) == [kind |-> kind, word |-> word, standard |-> standard]

(* A lemma that comes twice, standard and not; a release that has it as a  *)
(* word form only; and two files no import gets through.                    *)
SmallReleases ==
  {<<Row("head", w1, TRUE), Row("form", w2, TRUE), Row("head", w1, FALSE),
     Row("form", w2, FALSE), Row("blank", w1, FALSE)>>,
   <<Row("head", w2, FALSE), Row("form", w1, TRUE), Row("form", w2, FALSE)>>,
   <<Row("head", w2, TRUE), Row("malformed", w2, TRUE)>>,
   <<Row("form", w1, TRUE)>>}

(* An area without a title is skipped, and so are its region and communities. *)
SmallAreas == {{[id |-> a1, titled |-> TRUE], [id |-> a2, titled |-> FALSE]}}

SmallRegions == {{[id |-> g1, area |-> a1, titled |-> TRUE],
                  [id |-> g2, area |-> a2, titled |-> TRUE]}}

Hromada(id, region, name, villages) ==
  [id |-> id, area |-> a1, region |-> region, name |-> name, villages |-> villages,
   titled |-> TRUE]

(* A community of two villages; and renamed, with one of them, beside one     *)
(* whose region is unknown.                                                 *)
SmallCommunities ==
  {{Hromada(c1, g1, "old", {v1, v2})},
   {Hromada(c1, g1, "new", {v1}), Hromada(c2, g2, "old", {v2})}}

Abbreviation(text, language, full, spellings) ==
  [text |-> text, category |-> "grammar", language |-> language, full |-> full,
   unresolved |-> FALSE, variants |-> spellings]

(* Two texts, one of them with two sets of spellings and one with a language; and *)
(* a form without a full form, which is refused.                                 *)
SmallForms ==
  {Abbreviation("adj.", None, "adjective", {"a."}),
   Abbreviation("adj.", None, "adjective", {"aj", "a."}),
   Abbreviation("n.", None, "noun", {}), Abbreviation("n.", "uk", "noun", {"n"}),
   Abbreviation("n.", None, "", {})}

(* A file that repeats itself, with a blank variant and a row that names no       *)
(* category; and one of two different rows.                                     *)
SmallFiles ==
  {<<Abbreviation("n.", None, "noun", {"", "n"}), None, Abbreviation("n.", None, "noun", {})>>,
   <<Abbreviation("adj.", None, "adjective", {"a."}), Abbreviation("n.", "uk", "noun", {})>>}

Fact(table, column, value) == [table |-> table, column |-> column, value |-> value]

(* SQL NULL, as DatabaseSchema writes it. *)
Null == "null"

(* The values that some revision admits and an older one does not, and beside  *)
(* each one that both admit.                                                *)
SmallFacts ==
  {Fact("dictionaries", "status", s) : s \in {"draft", "scanned", "published"}}
    \union {Fact("dictionary_events", "event_type", e) : e \in {"created", "status_changed"}}
    \union {Fact("dictionary_events", "previous_status", s) : s \in {"scanned", "processed"}}
    \union {Fact("dictionary_events", "new_status", s) : s \in {"configured", "in_progress"}}
    \union {Fact("lexemes", "origin", o) : o \in {"manual", "ocr"}}
    \union {Fact("users", "password_hash", Null), Fact("users", "name", Null)}
    \union {Fact("entry_fields", c, Null) : c \in {"source_start", "source_end"}}

ReferenceNext ==
  \/ Gazetteer!Init /\ Glossary!Init /\ Schema!Init /\ LexiconStep
  \/ Init /\ Glossary!Init /\ Schema!Init /\ GazetteerStep
  \/ Init /\ Gazetteer!Init /\ Schema!Init /\ GlossaryStep
  \/ Init /\ Gazetteer!Init /\ Glossary!Init /\ SchemaStep

(* The fairness of the lexicon: an import and a request that began go on.       *)
ReferenceDataSpec ==
  /\ ReferencesInit /\ [][ReferenceNext]_<<vars, gazetteer, glossary, schema>>
  /\ \A i \in Importers : WF_vars(ImportStep(i))
  /\ \A r \in Readers : WF_vars(ReadStep(r))
================================================================================
