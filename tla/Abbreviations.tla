----------------------------- MODULE Abbreviations -----------------------------
(***************************************************************************)
(* The abbreviations of one dictionary: created, edited and deleted one by     *)
(* one, or imported from a file that is previewed first.  A request reads in    *)
(* a transaction that commits later, so two of them may overlap; neither the    *)
(* key of an abbreviation nor its variants have a unique constraint.            *)
(***************************************************************************)
EXTENDS Naturals, Sequences, Functions

CONSTANTS
  MaxIds,         \* bound on the identifiers
  Editors,        \* browsers of the dictionary's owner
  Forms,          \* what a form may hold: a record of Form
  Files,          \* what a file may hold: sequences of rows, a row being a form or None
  Languages,      \* the codes of ISO 639-1
  MaxRequests,    \* bound on the requests
  None, Gone      \* NULL, or a row that is not there yet; one that was deleted

(* Identifiers, numbered in the order in which they are drawn. *)
Ids == 1 .. MaxIds

VARIABLES
  abbreviations, \* identifier -> its columns
  variants,      \* [of, edit, text]: the spellings, with the request that stored them
  browser,       \* editor -> the request it waits for, or the preview it looks at
  requests,      \* requests so far
  commits,       \* transactions that wrote abbreviations
  overlaid       \* those last written by a request that another one overlapped

vars == <<abbreviations, variants, browser, requests, commits, overlaid>>

IsRow(row) == row \notin {None, Gone}

(* What a form says of an abbreviation, its row, and the row of a spelling.          *)
Form ==
  [text : STRING, category : STRING, language : STRING \union {None}, full : STRING,
   unresolved : BOOLEAN, variants : SUBSET STRING]

Row ==
  [text : STRING, category : STRING, language : STRING \union {None}, full : STRING,
   unresolved : BOOLEAN, edit : Nat]

Spelling == [of : Ids, edit : Nat, text : STRING]

(* NULL is neither a row nor an identifier. *)
FormAssumption ==
  /\ Forms \subseteq Form
  /\ \A file \in Files : file \in Seq(Form \union {None})
  /\ None \notin Row /\ Gone \notin Row /\ None \notin Ids
  /\ MaxIds \in Nat

Init ==
  /\ abbreviations = [a \in Ids |-> None] /\ variants = {}
  /\ browser = [e \in Editors |-> None]
  /\ requests = 0 /\ commits = 0 /\ overlaid = {}

--------------------------------------------------------------------------------
(* An abbreviation has a text, a full form unless nobody knows it, a known        *)
(* language if any, and no blank variant.                                        *)
ValidFields(form) ==
  /\ form.text # ""
  /\ form.unresolved \/ form.full # ""
  /\ form.language \in Languages \union {None}
  /\ "" \notin form.variants

Key(form) == <<form.category, form.language, form.text>>

(* A bug: SQL's equality, under which no language is like no other.               *)
DuplicatesOfKnownLanguage(form, added, except) ==
  {a \in Ids \ {except} :
     /\ form.language # None
     /\ \/ IsRow(abbreviations[a]) /\ Key(abbreviations[a]) = Key(form)
        \/ a \in DOMAIN added /\ Key(added[a]) = Key(form)}

(* The rows with the key of a form, among those committed and those that the       *)
(* transaction itself added; language IS NULL when the form has none.              *)
Duplicates(form, added, except) ==
  {a \in Ids \ {except} :
     \/ IsRow(abbreviations[a]) /\ Key(abbreviations[a]) = Key(form)
     \/ a \in DOMAIN added /\ Key(added[a]) = Key(form)}

Waits(e, step) == browser' = [browser EXCEPT ![e] = step]

At(e, step) == browser[e] # None /\ browser[e].step = step

(* A request arrives, and does its first step.                                    *)
Received(e, step) ==
  /\ requests < MaxRequests /\ requests' = requests + 1
  /\ Waits(e, step)

(* The next identifier that no row and no request has.                            *)
Unused ==
  LET free == {a \in Ids :
                 /\ abbreviations[a] = None
                 /\ \A e \in Editors : At(e, "adding") => a \notin DOMAIN browser[e].added}
  IN  {a \in free : \A b \in free : a <= b}

(* The columns that a form fills, stamped by the request that stores them.         *)
Columns(form, edit) ==
  [text |-> form.text, category |-> form.category, language |-> form.language,
   full |-> form.full, unresolved |-> form.unresolved, edit |-> edit]

Variants(a, form, edit) == {[of |-> a, edit |-> edit, text |-> v] : v \in form.variants}

(* A transaction that adds abbreviations: the rows still to read, by their line,    *)
(* and those it added.                                                          *)
Adding(edit, since, left, added, spellings) ==
  [step |-> "adding", edit |-> edit, since |-> since, left |-> left, added |-> added,
   spellings |-> spellings]

With(added, a, row) ==
  [b \in DOMAIN added \union {a} |-> IF b = a THEN row ELSE added[b]]

Create(e, form) ==
  /\ browser[e] = None
  /\ ValidFields(form) /\ Duplicates(form, <<>>, None) = {}
  /\ LET edit == requests + 1
     IN  \E a \in Unused :
           Received(e, Adding(edit, commits, <<>>, With(<<>>, a, Columns(form, edit)),
                              Variants(a, form, edit)))
  /\ UNCHANGED <<abbreviations, variants, commits, overlaid>>

Update(e, a, form) ==
  /\ browser[e] = None
  /\ ValidFields(form) /\ IsRow(abbreviations[a]) /\ Duplicates(form, <<>>, a) = {}
  /\ Received(e, [step |-> "editing", edit |-> requests + 1, since |-> commits, of |-> a,
                  form |-> form, loaded |-> abbreviations[a]])
  /\ UNCHANGED <<abbreviations, variants, commits, overlaid>>

(* A bug: the variants that were there stay.                                      *)
StoredVariantsKept(a) == {}

(* The variants that a DELETE sees.                                               *)
StoredVariants(a) == {v \in variants : v.of = a}

(* The transaction that deleted some of these variants and has not ended.          *)
Holder(e, deleted) ==
  {o \in Editors \ {e} :
     At(o, "replacing") /\ browser[o].holds /\ browser[o].deleted \cap deleted # {}}

(* The DELETE goes first; it waits for a transaction that deletes the same rows,    *)
(* and sees no others when that one ends.                                          *)
ReplaceVariants(e) ==
  /\ At(e, "editing")
  /\ LET r == browser[e]
         deleted == StoredVariants(r.of)
     IN  Waits(e, [step |-> "replacing", edit |-> r.edit, since |-> r.since, of |-> r.of,
                   form |-> r.form, loaded |-> r.loaded, deleted |-> deleted,
                   holds |-> Holder(e, deleted) = {}])
  /\ UNCHANGED <<abbreviations, variants, requests, commits, overlaid>>

(* A row of a file as the parser types it: None when it names no category or its    *)
(* fields are not valid; its blank variants are left out.                         *)
RowToInput(row) ==
  IF row = None THEN None
  ELSE LET form == [row EXCEPT !.variants = @ \ {""}]
       IN  IF ValidFields(form) THEN form ELSE None

(* The rows that a preview finds valid, unique in the file, and new.               *)
Previewed(file) ==
  LET input(i) == RowToInput(file[i])
      fresh(i) == input(i) # None /\ Duplicates(input(i), <<>>, None) = {}
      kept(i) == fresh(i) /\ \A j \in 1 .. i - 1 : fresh(j) => Key(input(j)) # Key(input(i))
  IN  [i \in DOMAIN file |-> IF kept(i) THEN input(i) ELSE None]

(* The browser keeps the valid rows of the preview.                               *)
PreviewImport(e, file) ==
  /\ browser[e] = None
  /\ LET preview == Previewed(file)
         kept == {i \in DOMAIN preview : preview[i] # None}
     IN  /\ kept # {}
         /\ Received(e, [step |-> "previewed", kept |-> Restrict(preview, kept)])
  /\ UNCHANGED <<abbreviations, variants, commits, overlaid>>

CommitImport(e) ==
  /\ At(e, "previewed")
  /\ Received(e, Adding(requests + 1, commits, browser[e].kept, <<>>, {}))
  /\ UNCHANGED <<abbreviations, variants, commits, overlaid>>

(* The first of the lines still to read.                                          *)
NextLine(left) == {i \in DOMAIN left : \A j \in DOMAIN left : i <= j}

(* Each row is checked again, against what is there now; a duplicate is skipped.    *)
ImportRow(e) ==
  /\ At(e, "adding")
  /\ \E i \in NextLine(browser[e].left) :
       LET r == browser[e]
           form == r.left[i]
           rest == Restrict(r.left, DOMAIN r.left \ {i})
       IN  IF ~ ValidFields(form) \/ Duplicates(form, r.added, None) # {}
           THEN Waits(e, Adding(r.edit, r.since, rest, r.added, r.spellings))
           ELSE \E a \in Unused :
                  Waits(e, Adding(r.edit, r.since, rest,
                                  With(r.added, a, Columns(form, r.edit)),
                                  Variants(a, form, r.edit) \union r.spellings))
  /\ UNCHANGED <<abbreviations, variants, requests, commits, overlaid>>

(* What a transaction wrote, and whether another one wrote since it began.          *)
Wrote(since, written) ==
  /\ commits' = commits + 1
  /\ overlaid' = IF commits = since THEN overlaid \ written ELSE overlaid \union written

CommitAdded(e) ==
  /\ At(e, "adding") /\ DOMAIN browser[e].left = {}
  /\ abbreviations' = [a \in Ids |-> IF a \in DOMAIN browser[e].added
                                     THEN browser[e].added[a] ELSE abbreviations[a]]
  /\ variants' = variants \union browser[e].spellings
  /\ Wrote(browser[e].since, DOMAIN browser[e].added)
  /\ Waits(e, None) /\ UNCHANGED requests

(* An UPDATE names the columns whose value differs from the one that was loaded.    *)
Merged(now, loaded, new) ==
  [column \in DOMAIN now |-> IF new[column] = loaded[column] THEN now[column] ELSE new[column]]

(* The UPDATE of a row that is gone fails, and the variants stay as they are.       *)
CommitUpdate(e) ==
  /\ At(e, "replacing")
  /\ browser[e].holds \/ Holder(e, browser[e].deleted) = {}
  /\ LET r == browser[e]
         now == abbreviations[r.of]
     IN  IF ~ IsRow(now)
         THEN UNCHANGED <<abbreviations, variants, commits, overlaid>>
         ELSE /\ abbreviations' = [abbreviations EXCEPT ![r.of] = Merged(now, r.loaded, Columns(r.form, r.edit))]
              /\ variants' = (variants \ r.deleted) \union Variants(r.of, r.form, r.edit)
              /\ Wrote(r.since, {r.of})
  /\ Waits(e, None) /\ UNCHANGED requests

(* The foreign key takes the variants with the abbreviation.                       *)
Delete(a) ==
  /\ IsRow(abbreviations[a]) /\ requests < MaxRequests /\ requests' = requests + 1
  /\ abbreviations' = [abbreviations EXCEPT ![a] = Gone]
  /\ variants' = {v \in variants : v.of # a}
  /\ UNCHANGED <<browser, commits, overlaid>>

Next ==
  \/ \E e \in Editors :
       \/ \E form \in Forms : Create(e, form)
       \/ \E form \in Forms, a \in Ids : Update(e, a, form)
       \/ \E file \in Files : PreviewImport(e, file)
       \/ CommitImport(e) \/ ImportRow(e) \/ CommitAdded(e)
       \/ ReplaceVariants(e) \/ CommitUpdate(e)
  \/ \E a \in Ids : Delete(a)

Spec == Init /\ [][Next]_vars

--------------------------------------------------------------------------------
(* What a request in flight holds. *)
Holds(q) ==
  /\ q.step \in {"previewed", "adding", "editing", "replacing"}
  /\ q.step = "previewed" => \A i \in DOMAIN q.kept : q.kept[i] \in Form
  /\ q.step # "previewed" => q.edit \in Nat /\ q.since \in 0 .. commits
  /\ q.step = "adding" =>
       /\ \A i \in DOMAIN q.left : q.left[i] \in Form
       /\ \A a \in DOMAIN q.added : a \in Ids /\ q.added[a] \in Row
       /\ q.spellings \subseteq Spelling
  /\ q.step \in {"editing", "replacing"} => q.of \in Ids /\ q.form \in Form /\ q.loaded \in Row
  /\ q.step = "replacing" => q.deleted \subseteq Spelling

TypeOK ==
  /\ abbreviations \in [Ids -> Row \union {None, Gone}]
  /\ variants \subseteq Spelling
  /\ DOMAIN browser = Editors
  /\ \A e \in Editors : browser[e] # None => Holds(browser[e])
  /\ requests \in Nat /\ commits \in Nat
  /\ overlaid \subseteq Ids

(* Of two abbreviations with one text, category and language, which creating,      *)
(* editing and importing all refuse, one was written by a request that another      *)
(* one overlapped: nothing else makes a duplicate, be it between a preview and      *)
(* its import, within a file or without a language.                                *)
DuplicatesExplained ==
  \A a, b \in Ids :
    (a # b /\ IsRow(abbreviations[a]) /\ IsRow(abbreviations[b]) /\ Key(abbreviations[a]) = Key(abbreviations[b])) =>
      a \in overlaid \/ b \in overlaid

(* The stored spellings belong to an abbreviation that is there, and are those of    *)
(* its last edit alone, unless that edit overlapped another one.                    *)
VariantsOfLastEdit ==
  \A v \in variants :
    IsRow(abbreviations[v.of]) /\ (v.of \notin overlaid => v.edit = abbreviations[v.of].edit)

(* What a transaction that adds abbreviations has for itself: their identifiers, and *)
(* the stamp of the request.                                                    *)
Claims(q) ==
  q.step = "adding" =>
    /\ \A a \in DOMAIN q.added : abbreviations[a] = None /\ q.added[a].edit = q.edit
    /\ \A v \in q.spellings : v.of \in DOMAIN q.added /\ v.edit = q.edit

Apart ==
  \A e, f \in Editors :
    e # f /\ At(e, "adding") /\ At(f, "adding") =>
      DOMAIN browser[e].added \cap DOMAIN browser[f].added = {}

(* A transaction knows what is stored until another one commits: the keys of what    *)
(* it adds are new,                                                             *)
AddsNewKeys(q) ==
  q.step = "adding" /\ q.since = commits =>
    \A a \in DOMAIN q.added : \A b \in Ids \ {a} :
      /\ IsRow(abbreviations[b]) => Key(abbreviations[b]) # Key(q.added[a])
      /\ b \in DOMAIN q.added => Key(q.added[b]) # Key(q.added[a])

(* and so is the key of the row it edits, which it has loaded, with its spellings.    *)
KnowsItsRow(q) ==
  q.step \in {"editing", "replacing"} /\ q.since = commits =>
    /\ IsRow(abbreviations[q.of]) => abbreviations[q.of] = q.loaded
    /\ \A b \in Ids \ {q.of} : IsRow(abbreviations[b]) => Key(abbreviations[b]) # Key(q.form)
    /\ q.step = "replacing" => StoredVariants(q.of) \subseteq q.deleted

IInv ==
  /\ TypeOK /\ DuplicatesExplained /\ VariantsOfLastEdit /\ Apart
  /\ \A e \in Editors : browser[e] # None =>
       Claims(browser[e]) /\ AddsNewKeys(browser[e]) /\ KnowsItsRow(browser[e])
================================================================================
