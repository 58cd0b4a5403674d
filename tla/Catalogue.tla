------------------------------- MODULE Catalogue -------------------------------
(***************************************************************************)
(* The cards of the catalogue (table materials) and the three editors that *)
(* write them: the textbooks' (createMaterialDirect, updateMaterialDirect, *)
(* appendMaterialEbookLinkDirect, archiveMaterialDirect of                 *)
(* src/lib/library-mutation-store.ts), the literature's                    *)
(* (src/lib/library-editor.ts, saveLibraryEdition), and the activation of  *)
(* an imported edition (src/lib/library-copy-store.ts).                    *)
(*                                                                         *)
(* A new card takes the largest number plus one, read before the batch; a  *)
(* textbook whose number was taken tries again, three times in all.  Every *)
(* editor repeats its check of the ISBN in the batch, each over its own    *)
(* set of cards.                                                           *)
(*                                                                         *)
(* Abstractions: of the fields of a card only ISBN and links are kept; the *)
(* stock that forbids archiving and adopting is a free choice (Inventory   *)
(* and BookCopies model it); the repetition of a request is followed for   *)
(* new cards only, whose request has no version to be refused by.          *)
(***************************************************************************)
EXTENDS Integers, FiniteSets

CONSTANTS
    Isbns,          \* normalised ISBNs
    Adds,           \* request ids of new cards
    Urls,           \* addresses of electronic versions
    Editors,        \* concurrently running handler invocations
    Aside, NoIsbn, NoAdd,   \* model values
    MaxNumber,      \* bound: cards of the catalogue
    MaxRecordVersion    \* bound: changes of one card

ASSUME CatalogueAssumption ==
    /\ MaxNumber \in Nat /\ MaxRecordVersion \in Nat \ {0}
    /\ NoIsbn \notin Isbns /\ NoAdd \notin Adds

Numbers == 1 .. MaxNumber

VARIABLES
    record,     \* catalog_number -> the card
    added,      \* request -> the number it was answered with, 0 for none
    editor      \* handler -> what it read and is about to write

catalogueVars == <<record, added, editor>>

NewCalls == {"create", "shelve", "activate"}
CardCalls == {"update", "link", "revise", "archive", "adopt"}
NoRecord == [status |-> "none", isbn |-> NoIsbn, fund |-> "education",
             adopted |-> FALSE, ver |-> 0, links |-> {}]
RecordType == [status : {"none", "active", "archived"}, isbn : Isbns \cup {NoIsbn},
               fund : {"education", "literature"}, adopted : BOOLEAN,
               ver : 0 .. MaxRecordVersion, links : SUBSET Urls]
EditorPlan == [call : NewCalls \cup CardCalls, at : {"number", "batch"},
               add : Adds \cup {NoAdd}, number : 0 .. MaxNumber + 1,
               isbn : Isbns \cup {NoIsbn}, links : SUBSET Urls,
               ver : 0 .. MaxRecordVersion, tries : 0 .. 2, from : 0 .. MaxNumber]

CatalogueTypeOK ==
    /\ record \in [Numbers -> RecordType]
    /\ added \in [Adds -> 0 .. MaxNumber]
    /\ editor \in [Editors -> EditorPlan \cup {Aside}]

CatalogueInit ==
    /\ record = [n \in Numbers |-> NoRecord]
    /\ added = [r \in Adds |-> 0]
    /\ editor = [w \in Editors |-> Aside]

Taken == {n \in Numbers : record[n].status # "none"}
Highest == CHOOSE n \in Taken \cup {0} : \A m \in Taken : m <= n
ActiveCard(n) == n \in Numbers /\ record[n].status = "active"
Textbook(n) == ActiveCard(n) /\ record[n].fund = "education"
LiteratureCard(n) == ActiveCard(n) /\ record[n].fund = "literature"

(* The textbooks' editor and the activation look at every active card, the
   literature's editor at literature alone.                                *)
FreeIsbn(i, except) == i = NoIsbn \/ \A n \in Numbers \ {except} :
                                        ActiveCard(n) => record[n].isbn # i
FreeAmongLiterature(i, except) ==
    i = NoIsbn \/ \A n \in Numbers \ {except} : LiteratureCard(n) => record[n].isbn # i

Editing(w, c) == editor[w] # Aside /\ editor[w].call = c /\ editor[w].at = "batch"
PutAside(w) == editor' = [editor EXCEPT ![w] = Aside]
Draws(w, p) == editor[w] = Aside /\ editor' = [editor EXCEPT ![w] = p]

(* A request that was answered is answered again and reads nothing. *)
PlanCard(w, c, r, i) ==
    /\ added[r] = 0
    /\ c = "create" => FreeIsbn(i, 0)
    /\ Draws(w, [call |-> c, at |-> "number", add |-> r, number |-> 0, isbn |-> i,
                 links |-> {}, ver |-> 0, tries |-> 0, from |-> Highest])
    /\ UNCHANGED <<record, added>>

ReadMaximum(w) ==
    /\ editor[w] # Aside /\ editor[w].at = "number"
    /\ editor' = [editor EXCEPT ![w].number = Highest + 1, ![w].at = "batch"]
    /\ UNCHANGED <<record, added>>

(* The batch of a new card: its command, the ISBN, then the number. *)
Granted(w) ==
    /\ added[editor[w].add] = 0
    /\ IF editor[w].call = "shelve" THEN FreeAmongLiterature(editor[w].isbn, 0)
                                    ELSE FreeIsbn(editor[w].isbn, 0)
NumberFree(w) == editor[w].number \notin Taken

CommitCard(w) ==
    /\ \E c \in NewCalls : Editing(w, c)
    /\ editor[w].number \in Numbers
    /\ Granted(w) /\ NumberFree(w)
    /\ record' = [record EXCEPT ![editor[w].number] =
         [NoRecord EXCEPT !.status = "active", !.isbn = editor[w].isbn, !.ver = 1,
            !.fund = IF editor[w].call = "create" THEN "education" ELSE "literature"]]
    /\ added' = [added EXCEPT ![editor[w].add] = editor[w].number]
    /\ PutAside(w)

(* Only a number that was taken is worth another try. *)
TryAgain(w) ==
    /\ Editing(w, "create")
    /\ Granted(w) /\ ~NumberFree(w)
    /\ editor[w].tries < 2
    /\ editor' = [editor EXCEPT ![w].at = "number", ![w].tries = @ + 1]
    /\ UNCHANGED <<record, added>>

(* The calls on a card that exists carry the version the form was opened
   with; a call whose input is not what is stored is refused at once.      *)
ChangesCard(w, c, n, i, us) ==
    /\ record[n].ver < MaxRecordVersion
    /\ Draws(w, [call |-> c, at |-> "batch", add |-> NoAdd, number |-> n, isbn |-> i,
                 links |-> us, ver |-> record[n].ver, tries |-> 0, from |-> 0])
    /\ UNCHANGED <<record, added>>

PlanEdit(w, n, i, us) ==
    /\ Textbook(n)
    /\ i # record[n].isbn => FreeIsbn(i, n)
    /\ ChangesCard(w, "update", n, i, us)

PlanEbook(w, n, u) ==
    /\ Textbook(n)
    /\ u \notin record[n].links
    /\ ChangesCard(w, "link", n, record[n].isbn, {u})

PlanRevise(w, n, i) ==
    /\ LiteratureCard(n)
    /\ ChangesCard(w, "revise", n, i, {})

PlanLeave(w, n) ==
    /\ Textbook(n)
    /\ ChangesCard(w, "archive", n, record[n].isbn, {})

(* An imported edition may be activated on the card of a textbook that has
   its ISBN; the card keeps its version.                                   *)
PlanAdopt(w, n) ==
    /\ ActiveCard(n)
    /\ record[n].isbn # NoIsbn
    /\ ChangesCard(w, "adopt", n, record[n].isbn, {})

SameVersion(w) == record[editor[w].number].ver = editor[w].ver
Rewrite(w, row) ==
    /\ record' = [record EXCEPT ![editor[w].number] = row]
    /\ PutAside(w)
    /\ UNCHANGED added

CommitEdit(w) ==
    /\ Editing(w, "update")
    /\ LET p == editor[w]  n == p.number IN
       /\ Textbook(n) /\ SameVersion(w)
       /\ FreeIsbn(p.isbn, n)
       /\ Rewrite(w, [record[n] EXCEPT !.isbn = p.isbn, !.links = p.links, !.ver = @ + 1])

CommitEbook(w) ==
    /\ Editing(w, "link")
    /\ LET p == editor[w]  n == p.number IN
       /\ Textbook(n) /\ SameVersion(w)
       /\ Rewrite(w, [record[n] EXCEPT !.links = @ \cup p.links, !.ver = @ + 1])

CommitRevise(w) ==
    /\ Editing(w, "revise")
    /\ LET p == editor[w]  n == p.number IN
       /\ ActiveCard(n) /\ SameVersion(w)
       /\ FreeAmongLiterature(p.isbn, n)
       /\ Rewrite(w, [record[n] EXCEPT !.isbn = p.isbn, !.ver = @ + 1])

CommitLeave(w) ==
    /\ Editing(w, "archive")
    /\ LET n == editor[w].number IN
       /\ Textbook(n) /\ SameVersion(w)
       /\ Rewrite(w, [record[n] EXCEPT !.status = "archived", !.ver = @ + 1])

CommitAdopt(w) ==
    /\ Editing(w, "adopt")
    /\ LET p == editor[w]  n == p.number IN
       /\ Textbook(n) /\ record[n].isbn = p.isbn
       /\ Rewrite(w, [record[n] EXCEPT !.fund = "literature", !.adopted = TRUE])

(* A batch whose guards fail, or a worker that dies, leaves no trace. *)
PutDown(w) ==
    /\ editor[w] # Aside
    /\ PutAside(w)
    /\ UNCHANGED <<record, added>>

CatalogueNext ==
    \E w \in Editors :
      \/ \E c \in NewCalls, r \in Adds, i \in Isbns \cup {NoIsbn} : PlanCard(w, c, r, i)
      \/ \E n \in Numbers :
           \/ \E i \in Isbns \cup {NoIsbn}, us \in SUBSET Urls : PlanEdit(w, n, i, us)
           \/ \E u \in Urls : PlanEbook(w, n, u)
           \/ \E i \in Isbns \cup {NoIsbn} : PlanRevise(w, n, i)
           \/ PlanLeave(w, n) \/ PlanAdopt(w, n)
      \/ ReadMaximum(w) \/ CommitCard(w) \/ TryAgain(w)
      \/ CommitEdit(w) \/ CommitEbook(w) \/ CommitRevise(w) \/ CommitLeave(w)
      \/ CommitAdopt(w) \/ PutDown(w)

CatalogueSpec == CatalogueInit /\ [][CatalogueNext]_catalogueVars

-------------------------------------------------------------------------------
(* No two active textbooks share an ISBN, nor two books of literature unless
   one of them was a textbook the activation adopted; a textbook and a book of
   literature may (library-mutation-store.ts:455, library-editor.ts:42).   *)
IsbnsApart ==
    \A m, n \in Taken :
      /\ m # n
      /\ ActiveCard(m) /\ ActiveCard(n)
      /\ record[m].isbn = record[n].isbn /\ record[m].isbn # NoIsbn
      => \/ record[m].fund # record[n].fund
         \/ record[m].adopted \/ record[n].adopted

(* Numbers are given without a gap, each by one request, however often the
   request is repeated and however many are under way
   (createMaterialDirect, the loop on CAT-ids).                            *)
NumbersInTurn ==
    /\ Taken = 1 .. Highest
    /\ \A n \in Taken : Cardinality({r \in Adds : added[r] = n}) = 1

(* A call that tries again was beaten to a number every time: a catalogue in
   which nothing else is added takes a card at the first try
   (isCatalogAllocationConflict).                                          *)
BeatenEachTry ==
    \A w \in Editors :
      editor[w] # Aside /\ editor[w].tries > 0
      => Highest >= editor[w].from + editor[w].tries

CatalogueSound == IsbnsApart /\ NumbersInTurn /\ BeatenEachTry

(* The textbooks' editor never rewrites a card that literature adopted, even
   when its form was opened before (educationalMaterialsGuardStatement).   *)
AdoptedStep ==
    \A n \in Numbers : LiteratureCard(n) /\ record'[n] # record[n] =>
      \E w \in Editors : Editing(w, "revise")
===============================================================================
