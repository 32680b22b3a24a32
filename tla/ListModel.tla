------------------------------ MODULE ListModel ------------------------------
(***************************************************************************)
(* Vault::VaultListModel (src/vault/vaultmodel.cpp): the rows the vault     *)
(* page shows.  A refresh resets the model; a change of a filter instead    *)
(* walks over the rows and inserts and removes single ones, so that the     *)
(* view keeps its scroll position and the keyboard stays up.  The view is   *)
(* told of every row and reads the model in between, so each row operation  *)
(* of the walk is a step here; nothing else runs until the walk is over.    *)
(*                                                                          *)
(* Mutants (see VaultOps) are marked as such.                               *)
(***************************************************************************)
EXTENDS SequencesExt

CONSTANTS
  Ids,                  \* identities of items
  Names,                \* their names, as numbers in the order of the locale
  Queries, NoQuery,     \* texts searched for; the empty text
  Folders,              \* folders
  NoFolder, AnyFolder,  \* folder filters "none" and "" (all items)
  Sources               \* what Vault::items may be when the model refreshes

(* hits: the queries the name, the user name or the URI contains.            *)
Item == [id : Ids, name : Names, favorite : BOOLEAN,
         folder : Folders \cup {NoFolder}, hits : SUBSET Queries]

(* The server's items have ids of their own.                                 *)
DistinctIds(s) == \A i, j \in DOMAIN s : s[i].id = s[j].id => i = j

ASSUME ListAssumption ==
  /\ Names \subseteq Nat
  /\ NoQuery \notin Queries
  /\ AnyFolder \notin Folders \cup {NoFolder}
  /\ \A s \in Sources : s \in Seq(Item) /\ DistinctIds(s)

VARIABLES
  source,         \* m_source
  query, folder,  \* m_searchQuery, m_folderFilter
  rows,           \* m_filtered
  hasFavorites,   \* m_hasFavorites
  fresh,          \* the rows a walk is to arrive at, NoWalk outside of one
  settled         \* how many of them it has dealt with

filters == <<query, folder>>
vars    == <<source, query, folder, rows, hasFavorites, fresh, settled>>

NoWalk  == <<>>
Walking == settled # -1

-----------------------------------------------------------------------------
(* filteredItems: the items that pass both filters, favorites first, then by *)
(* name, equal names in the order of the source (std::stable_sort).          *)
Passes(item, q, f) ==
  /\ f = AnyFolder \/ item.folder = f
  /\ q = NoQuery \/ q \in item.hits

Kept(s, q, f) == {i \in DOMAIN s : Passes(s[i], q, f)}

Precedes(s, i, j) ==
  IF s[i].favorite # s[j].favorite THEN s[i].favorite
  ELSE IF s[i].name # s[j].name THEN s[i].name < s[j].name
  ELSE i < j

Place(s, kept, i) == 1 + Cardinality({j \in kept : Precedes(s, j, i)})

Filtered(s, q, f) ==
  LET kept == Kept(s, q, f) IN
  [n \in 1 .. Cardinality(kept) |->
     s[CHOOSE i \in kept : Place(s, kept, i) = n]]

FavoriteFirst(r) == r # <<>> /\ r[1].favorite

-----------------------------------------------------------------------------
Init ==
  /\ source = <<>> /\ query = NoQuery /\ folder = AnyFolder
  /\ rows = <<>> /\ hasFavorites = FALSE
  /\ fresh = NoWalk /\ settled = -1

(* Mutant of Refresh: the filters are forgotten by a reset.                  *)
RefreshUnfiltered(items) ==
  /\ ~Walking
  /\ source' = items
  /\ rows' = Filtered(items, NoQuery, AnyFolder)
  /\ hasFavorites' = FavoriteFirst(rows')
  /\ UNCHANGED <<filters, fresh, settled>>

(* A model reset, on lockedChanged and after each reload of the vault.       *)
Refresh(items) ==
  /\ ~Walking
  /\ source' = items
  /\ rows' = Filtered(items, query, folder)
  /\ hasFavorites' = FavoriteFirst(rows')
  /\ UNCHANGED <<filters, fresh, settled>>

StartWalk(q, f) == fresh' = Filtered(source, q, f) /\ settled' = 0

SetSearchQuery(q) ==
  /\ ~Walking /\ q # query
  /\ query' = q
  /\ StartWalk(q, folder)
  /\ UNCHANGED <<source, folder, rows, hasFavorites>>

SetFolderFilter(f) ==
  /\ ~Walking /\ f # folder
  /\ folder' = f
  /\ StartWalk(query, f)
  /\ UNCHANGED <<source, query, rows, hasFavorites>>

-----------------------------------------------------------------------------
(* applyFilterDiff.  The next fresh item and the row in its place:           *)
Pending == Walking /\ settled < Len(fresh)
NextItem == fresh[settled + 1]
AtRow == settled < Len(rows)

(* Mutant of InPlace: an unchanged row is not recognised.                    *)
InPlaceUnseen == FALSE

InPlace == AtRow /\ rows[settled + 1].id = NextItem.id
Stale == \A i \in DOMAIN fresh : fresh[i].id # rows[settled + 1].id

(* Mutant of RemoveStale: every row that is not the next item goes.          *)
RemoveStaleEager ==
  /\ Pending /\ AtRow /\ ~InPlace
  /\ rows' = RemoveAt(rows, settled + 1)
  /\ UNCHANGED <<source, filters, hasFavorites, fresh, settled>>

RemoveStale ==
  /\ Pending /\ AtRow /\ ~InPlace /\ Stale
  /\ rows' = RemoveAt(rows, settled + 1)
  /\ UNCHANGED <<source, filters, hasFavorites, fresh, settled>>

KeepRow ==
  /\ Pending /\ InPlace
  /\ settled' = settled + 1
  /\ UNCHANGED <<source, filters, rows, hasFavorites, fresh>>

InsertRow ==
  /\ Pending /\ ~InPlace /\ (AtRow => ~Stale)
  /\ rows' = InsertAt(rows, settled + 1, NextItem)
  /\ settled' = settled + 1
  /\ UNCHANGED <<source, filters, hasFavorites, fresh>>

RemoveTail ==
  /\ Walking /\ ~Pending /\ AtRow
  /\ rows' = RemoveAt(rows, settled + 1)
  /\ UNCHANGED <<source, filters, hasFavorites, fresh, settled>>

(* Mutant of EndWalk: the favorites are looked at on resets only.            *)
EndWalkSilent ==
  /\ Walking /\ ~Pending /\ ~AtRow
  /\ fresh' = NoWalk /\ settled' = -1
  /\ UNCHANGED <<source, filters, rows, hasFavorites>>

EndWalk ==
  /\ Walking /\ ~Pending /\ ~AtRow
  /\ hasFavorites' = FavoriteFirst(rows)
  /\ fresh' = NoWalk /\ settled' = -1
  /\ UNCHANGED <<source, filters, rows>>

Walk == RemoveStale \/ KeepRow \/ InsertRow \/ RemoveTail \/ EndWalk

Next ==
  \/ \E items \in Sources : Refresh(items)
  \/ \E q \in Queries \cup {NoQuery} : SetSearchQuery(q)
  \/ \E f \in Folders \cup {NoFolder, AnyFolder} : SetFolderFilter(f)
  \/ Walk

Spec == Init /\ [][Next]_vars

-----------------------------------------------------------------------------
(* The members keep their types; the walk stays within the rows.             *)
TypeOK ==
  /\ source \in Seq(Item) /\ DistinctIds(source)
  /\ query \in Queries \cup {NoQuery}
  /\ folder \in Folders \cup {NoFolder, AnyFolder}
  /\ rows \in Seq(Item) /\ hasFavorites \in BOOLEAN
  /\ fresh \in Seq(Item) /\ settled \in -1 .. Len(rows)

(* Whatever the filters were changed to and whatever was shown before, the   *)
(* walk arrives at the rows a reset would show, contents and order.          *)
RowsAreFiltered == ~Walking => rows = Filtered(source, query, folder)

(* Not even while rows are moved is an item shown twice: the precondition of *)
(* the walk, that filtering never reorders, holds (vaultmodel.cpp:130-133).  *)
RowsDistinct == DistinctIds(rows)

(* The page groups the rows exactly when a favorite is among them: looking   *)
(* at the first row only is enough.                                          *)
HasFavoritesExact ==
  ~Walking => (hasFavorites <=> \E i \in DOMAIN rows : rows[i].favorite)

(* "a single merge walk emits the minimal row operations" (vaultmodel.cpp:   *)
(* 144-148): a row that stays in the filter is never taken away, not even    *)
(* for a moment, so that the view may keep its place by it.                  *)
SurvivorsStay ==
  [][Walking => \A i \in DOMAIN rows :
       rows[i] \in ToSet(fresh) => rows[i] \in ToSet(rows')]_vars
=============================================================================
