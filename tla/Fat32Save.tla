------------------------------ MODULE Fat32Save ------------------------------
(***************************************************************************)
(* Saving, deleting and formatting on the card: core/src/fat32.rs and its  *)
(* callers in the settings and card screens.  Every step is one write to   *)
(* the card (a sector of a file allocation table, a directory sector, a    *)
(* cluster of data) with the reads that lead up to it, so that losing the  *)
(* power between any two writes is an ordinary behaviour.  What the card   *)
(* holds is all the state that survives; the rest are a call's locals.     *)
(*                                                                         *)
(* A cluster is seen in two ways: as a piece of a file (body) and as a     *)
(* page of the directory (page).  Its bytes are the same: data read as a   *)
(* page is noise, a page read as data is no piece of any file.             *)
(***************************************************************************)
EXTENDS Integers, FiniteSets, Sequences, SequencesExt

CONSTANTS LastCluster, \* the clusters are 2..LastCluster, the first the directory's
          PerSector,   \* entries of a sector of a file allocation table
          PerPage,     \* slots of a directory cluster
          Saved,       \* the 8.3 names the device saves under
          TestName,    \* the name the settings screen tests the card with
          Photo,       \* the name of a file a computer wrote, with a long name
          Sizes,       \* the lengths of files saved, in clusters
          MaxSize,     \* the longest
          MaxCalls,    \* bound: calls begun
          Absent, Damaged, Unknown  \* a reader's answers that are no version

Root     == 2
Clusters == Root..LastCluster
Eoc      == LastCluster + 1
Names    == Saved \union {TestName, Photo}
Versions == 1..MaxCalls + 1     \* 1 is the photo, then one for each call

\* The photo takes two slots and two clusters; a looped one is longer.
ASSUME GeometryAssumption ==
  /\ LastCluster \in Nat /\ LastCluster > 3
  /\ PerSector \in Nat \ {0} /\ PerPage \in Nat \ {0, 1}
  /\ MaxSize \in Nat /\ MaxSize > 2
  /\ Sizes \subseteq 1..MaxSize /\ MaxCalls \in Nat
ASSUME NamesAssumption ==
  /\ TestName \notin Saved /\ Photo \notin Saved /\ TestName # Photo
  /\ {Absent, Damaged, Unknown} \cap (Versions \union Names) = {}
  /\ Absent # Damaged /\ Damaged # Unknown /\ Absent # Unknown

VARIABLES fat,      \* the two copies of the table: cluster -> 0, next or Eoc
          page,     \* the clusters read as directory slots
          body,     \* the clusters read as pieces of files
          call,     \* the call under way
          pc,       \* the write it does next
          at,       \* its place: a cluster, or a format's sector
          batch,    \* clusters changed in one copy, due in the other
          chain,    \* the clusters found for a new file
          left,     \* of those, how many are not linked yet; then, not written
          calls,    \* calls begun
          scars     \* ghost: what a loss of power has left: a page linked and not
                    \* cleared, one with entries of before a format, half a format

disk   == <<fat, page, body>>
locals == <<at, batch, chain, left>>
vars   == <<disk, call, pc, locals, calls, scars>>

-----------------------------------------------------------------------------
(* The layout. *)

SlotKinds == {"end", "deleted", "long", "entry", "noise"}
Slot  == [kind : SlotKinds, name : Names \union {Absent}, first : 0..Eoc, size : 0..MaxSize]
Piece == [version : Versions \union {0}, part : 0..MaxSize]

Blank(k) == [kind |-> k, name |-> Absent, first |-> 0, size |-> 0]
EmptyPage == [i \in 1..PerPage |-> Blank("end")]
NoisePage == [i \in 1..PerPage |-> Blank("noise")]
NoPiece   == [version |-> 0, part |-> 0]

Chained(c) == c \in Clusters
Sector(c)  == c \div PerSector

\* The clusters from c on, along the links of a table; a loop is followed once.
NextOf(t, s) == t[s[Len(s)]]
Ended(t, s) == ~Chained(NextOf(t, s)) \/ NextOf(t, s) \in ToSet(s)
Walk(t, c) ==
  LET go[s \in Seq(Clusters)] ==
        IF Len(s) >= LastCluster \/ Ended(t, s) THEN s ELSE go[Append(s, NextOf(t, s))]
  IN IF Chained(c) THEN go[<<c>>] ELSE <<>>
PathFrom(c) == Walk(fat[1], c)

Directory == PathFrom(Root)

\* The slots of the directory, and the order in which a walk meets them. A page
\* that is being added counts once it is cleared.
Adding == pc \in {"hookmirror", "clear"}
InUse(d) == IF Adding THEN 1..Len(d) - 1 ELSE 1..Len(d)
Slots == LET d == Directory IN [p \in InUse(d) \X (1..PerPage) |-> page[d[p[1]]][p[2]]]
Before(p, q) == p[1] < q[1] \/ (p[1] = q[1] /\ p[2] < q[2])
First(S) == CHOOSE p \in S : \A q \in S : q = p \/ Before(p, q)
WithSlot(p, slot) == [page EXCEPT ![Directory[p[1]]] = [@ EXCEPT ![p[2]] = slot]]
Least(S) == CHOOSE k \in S : \A j \in S : k <= j

\* A listing or a search ends at the first slot that was never used.
Listed(sl) == {p \in DOMAIN sl : /\ sl[p].kind = "entry"
                                 /\ \A q \in DOMAIN sl : sl[q].kind = "end" => ~Before(q, p)}
HitsIn(sl, n) == {p \in Listed(sl) : sl[p].name = n}
Hits(n)  == HitsIn(Slots, n)
Found(n) == Hits(n) # {}

\* What reading a name back gives: a version only if every part of it is there.
ReadEntry(e) ==
  LET p == PathFrom(e.first)
      v == body[e.first].version
  IN IF /\ v \in Versions /\ Len(p) >= e.size
        /\ \A i \in 1..e.size : body[p[i]] = [version |-> v, part |-> i]
     THEN v ELSE Damaged
ReadBack(n) == LET sl == Slots
                   hits == HitsIn(sl, n)
               IN IF hits = {} THEN Absent ELSE ReadEntry(sl[First(hits)])

-----------------------------------------------------------------------------
(* Starting and stopping. *)

NoCall == [kind |-> "none", name |-> Absent, size |-> 0, version |-> 0]
Calls  == [kind : {"none", "save", "delete", "test", "format"},
           name : Names \union {Absent}, size : 0..MaxSize, version : Versions \union {0}]

\* The cards a computer hands over: empty, with a photo under a long name, or
\* with a photo whose chain was damaged into a loop across table sectors.
Card(links, size) ==
  /\ fat = [i \in 1..2 |-> [c \in Clusters |->
              IF c = Root THEN Eoc ELSE IF c \in DOMAIN links THEN links[c] ELSE 0]]
  /\ page = [c \in Clusters |->
       IF c # Root THEN EmptyPage
       ELSE [i \in 1..PerPage |->
               IF links = <<>> THEN Blank("end")
               ELSE IF i = 1 THEN [Blank("long") EXCEPT !.name = Photo]
               ELSE IF i = 2 THEN [kind |-> "entry", name |-> Photo, first |-> 3, size |-> size]
               ELSE Blank("end")]]
  /\ body = [c \in Clusters |->
       IF links # <<>> /\ c \in {3, 4} THEN [version |-> 1, part |-> c - 2] ELSE NoPiece]

LoopBack == <<4, 3>>

Init == /\ \/ Card(<<>>, 0)
           \/ Card([c \in {3, 4} |-> IF c = 4 THEN Eoc ELSE 4], 2)
           \/ Card([c \in {3, 4} |-> IF c = LoopBack[1] THEN LoopBack[2] ELSE 4], MaxSize)
        /\ call = NoCall /\ pc = "idle"
        /\ at = 0 /\ batch = {} /\ chain = <<>> /\ left = 0
        /\ calls = 0 /\ scars = {}

Begin(kind, n, size, first) ==
  /\ pc = "idle" /\ calls < MaxCalls
  /\ scars \cap {"format", "old"} # {} => kind = "format"
  /\ call' = [kind |-> kind, name |-> n, size |-> size, version |-> calls + 2]
  /\ pc' = first /\ calls' = calls + 1
  /\ UNCHANGED <<disk, locals, scars>>

\* write_file_to_sd, overwrite_file, the signature export: delete, then create.
\* A picture that data is hidden in is saved back under its own name.
Save(n, size) == Begin("save", n, size, "remove")
Delete(n) == Begin("delete", n, 0, "remove")
Test   == Begin("test", TestName, 1, "remove")
Format == Begin("format", Absent, 0, "format")

\* The page being added was one of the directory that a format has discarded.
Haunted == \E i \in 1..PerPage : page[at][i].kind = "entry"

\* A call is over, by itself, by a card error or by the power going: the
\* locals are gone, the card stays as it is.
Finish == /\ pc' = "idle" /\ call' = NoCall
          /\ at' = 0 /\ batch' = {} /\ chain' = <<>> /\ left' = 0

Stop == /\ pc # "idle" /\ Finish
        /\ scars' = scars \union (IF Adding THEN {"page"} ELSE {})
                          \union (IF Adding /\ Haunted THEN {"old"} ELSE {})
                          \union (IF pc \in {"format", "root"} THEN {"format"} ELSE {})
        /\ UNCHANGED <<disk, calls>>

\* The test ignores every error of its first deletion and creates.
TestGoesOn == /\ call.kind = "test" /\ pc \in {"remove", "free", "mirror"}
              /\ pc' = "claim" /\ at' = 0 /\ batch' = {}
              /\ UNCHANGED <<disk, call, chain, left, calls, scars>>
-----------------------------------------------------------------------------
(* delete_file: the entry first, then the chain, one table sector at a     *)
(* time, first copy and second.                                            *)

\* Where a call goes when nothing is left to free.
AfterFree == IF call.kind = "delete" THEN "done" ELSE "claim"

\* The clusters the walk zeroes without leaving c's table sector.
Visited(c) == LET p == PathFrom(c) IN
  {p[k] : k \in {k \in 1..Len(p) : \A j \in 1..k : Sector(p[j]) = Sector(c)}}
\* Where it stands then; a loop leads back to a zero.
Beyond(c) == LET p == PathFrom(c)
                 n == Cardinality(Visited(c))
             IN IF fat[1][p[n]] \in Visited(c) THEN 0 ELSE fat[1][p[n]]

\* Mutant: the walk does not zero.
MutZeroed(copy, S) == fat
Zeroed(copy, S) == [fat EXCEPT ![copy] = [c \in Clusters |-> IF c \in S THEN 0 ELSE @[c]]]

\* find_file_in_root and the deletion mark: one byte of the entry.
MarkDeleted ==
  LET p == First(Hits(call.name)) IN
  /\ pc = "remove" /\ Found(call.name)
  /\ page' = WithSlot(p, [Slots[p] EXCEPT !.kind = "deleted"])
  /\ at' = Slots[p].first
  /\ pc' = IF Chained(Slots[p].first) THEN "free" ELSE AfterFree
  /\ UNCHANGED <<fat, body, call, batch, chain, left, calls, scars>>

\* "File not found": a save goes on, a deletion is refused.
NothingToDelete ==
  /\ pc = "remove" /\ ~Found(call.name)
  /\ pc' = AfterFree
  /\ UNCHANGED <<disk, call, locals, calls, scars>>

FreeChain ==
  /\ pc = "free"
  /\ batch' = Visited(at)
  /\ fat' = Zeroed(1, Visited(at))
  /\ at' = Beyond(at)
  /\ pc' = "mirror"
  /\ UNCHANGED <<page, body, call, chain, left, calls, scars>>

FreeMirror ==
  /\ pc = "mirror"
  /\ fat' = Zeroed(2, batch)
  /\ batch' = {}
  /\ pc' = IF Chained(at) THEN "free" ELSE AfterFree
  /\ UNCHANGED <<page, body, call, at, chain, left, calls, scars>>

-----------------------------------------------------------------------------
(* create_file: the chain, highest table sector first, then the data, then *)
(* the directory entry.                                                    *)

FreeClusters == {c \in Clusters : fat[1][c] = 0}
FirstFit(n)  == [k \in 1..n |->
  CHOOSE c \in FreeClusters : Cardinality({d \in FreeClusters : d < c}) = k - 1]

\* allocate_chain, the scan.
Claim ==
  /\ pc = "claim"
  /\ IF Cardinality(FreeClusters) < call.size    \* "Disk full"
     THEN Finish /\ UNCHANGED scars
     ELSE /\ chain' = FirstFit(call.size) /\ left' = call.size
          /\ pc' = "link" /\ at' = 0
          /\ UNCHANGED <<call, batch, scars>>
  /\ UNCHANGED <<disk, calls>>

\* Mutant: lowest sector first.
MutTopSector == Sector(chain[1])
\* The sector patched next, and the run of the chain it holds.
TopSector == Sector(chain[left])
Run == {k \in 1..left : Sector(chain[k]) = TopSector}
LinkOf(k) == IF k < Len(chain) THEN chain[k + 1] ELSE Eoc
Linked(copy) == [fat EXCEPT ![copy] = [c \in Clusters |->
   IF \E k \in Run : chain[k] = c THEN LinkOf(CHOOSE k \in Run : chain[k] = c) ELSE @[c]]]

LinkChain  == /\ pc = "link" /\ fat' = Linked(1) /\ pc' = "linkmirror"
              /\ UNCHANGED <<page, body, call, locals, calls, scars>>

\* Mutant: the entry before the data.
MutLinkMirror ==
  /\ pc = "linkmirror" /\ fat' = Linked(2)
  /\ IF left = Cardinality(Run)
     THEN pc' = "entry" /\ left' = 0 /\ at' = Root
     ELSE pc' = "link" /\ left' = left - Cardinality(Run) /\ UNCHANGED at
  /\ UNCHANGED <<page, body, call, batch, chain, calls, scars>>
LinkMirror ==
  /\ pc = "linkmirror" /\ fat' = Linked(2)
  /\ IF left = Cardinality(Run)
     THEN pc' = "data" /\ left' = 0 /\ at' = chain[1]
     ELSE pc' = "link" /\ left' = left - Cardinality(Run) /\ UNCHANGED at
  /\ UNCHANGED <<page, body, call, batch, chain, calls, scars>>

\* One cluster of data, and the next by the table; left counts those written.
WriteData ==
  /\ pc = "data"
  /\ body' = [body EXCEPT ![at] = [version |-> call.version, part |-> left + 1]]
  /\ page' = [page EXCEPT ![at] = NoisePage]
  /\ IF left + 1 = call.size
     THEN pc' = "entry" /\ left' = 0 /\ at' = Root /\ UNCHANGED <<call, batch, chain>>
     ELSE IF fat[1][at] \in {at, chain[1]} \/ ~Chained(fat[1][at])
     THEN Finish                                   \* "Circular FAT chain"
     ELSE at' = fat[1][at] /\ left' = left + 1 /\ UNCHANGED <<pc, call, batch, chain>>
  /\ UNCHANGED <<fat, calls, scars>>

\* write_dir_entry_to_root: any slot that is not in use, wherever it is.
Spare == LET sl == Slots IN {p \in DOMAIN sl : sl[p].kind \in {"end", "deleted"}}

WriteEntry ==
  /\ pc = "entry" /\ Spare # {}
  /\ page' = WithSlot(First(Spare),
       [kind |-> "entry", name |-> call.name, first |-> chain[1], size |-> call.size])
  /\ IF call.kind = "test"
     THEN /\ call' = [call EXCEPT !.kind = "delete"] /\ pc' = "remove"
          /\ at' = 0 /\ chain' = <<>> /\ UNCHANGED <<batch, left>>
     ELSE Finish
  /\ UNCHANGED <<fat, body, calls, scars>>

\* The directory is full: allocate_cluster takes the first free one from the
\* hint on, and write_fat_entry writes each value to both copies.
NextFree(hint) == LET above == {c \in FreeClusters : c >= hint} IN
  IF above # {} THEN Least(above) ELSE Least(FreeClusters)
LastPage == Directory[Len(Directory)]

Extend ==
  /\ pc = "entry" /\ Spare = {}
  /\ IF FreeClusters = {} THEN Finish /\ UNCHANGED fat     \* "Disk full"
     ELSE /\ at' = NextFree(LastPage + 1)
          /\ fat' = [fat EXCEPT ![1][NextFree(LastPage + 1)] = Eoc]
          /\ pc' = "extmirror" /\ UNCHANGED <<call, batch, chain, left>>
  /\ UNCHANGED <<page, body, calls, scars>>

ExtendMirror ==
  /\ pc = "extmirror" /\ fat' = [fat EXCEPT ![2][at] = Eoc] /\ pc' = "hook"
  /\ UNCHANGED <<page, body, call, locals, calls, scars>>

Hook ==
  /\ pc = "hook"
  /\ fat' = [fat EXCEPT ![1][LastPage] = at]
  /\ batch' = {LastPage} /\ pc' = "hookmirror"
  /\ UNCHANGED <<page, body, call, at, chain, left, calls, scars>>

HookMirror ==
  /\ pc = "hookmirror"
  /\ fat' = [fat EXCEPT ![2] = [c \in Clusters |-> IF c \in batch THEN at ELSE @[c]]]
  /\ batch' = {} /\ pc' = "clear"
  /\ UNCHANGED <<page, body, call, at, chain, left, calls, scars>>

\* Mutant: the new page is not cleared.
MutClearPage ==
  /\ pc = "clear" /\ pc' = "entry"
  /\ UNCHANGED <<disk, call, locals, calls, scars>>
ClearPage ==
  /\ pc = "clear"
  /\ page' = [page EXCEPT ![at] = EmptyPage]
  /\ body' = [body EXCEPT ![at] = NoPiece]
  /\ pc' = "entry"
  /\ UNCHANGED <<fat, call, locals, calls, scars>>

Done == pc = "done" /\ Finish /\ UNCHANGED <<disk, calls, scars>>

-----------------------------------------------------------------------------
(* do_format_fat32: each table sector in both copies, then the directory.  *)
(* The boot sectors before them keep the layout of a card the device has   *)
(* formatted before.                                                       *)

Sectors == LastCluster \div PerSector + 1
Fresh(c) == IF c = Root THEN Eoc ELSE 0

FormatTables ==
  /\ pc = "format"
  /\ fat' = [fat EXCEPT ![(at % 2) + 1] =
       [c \in Clusters |-> IF Sector(c) = at \div 2 THEN Fresh(c) ELSE @[c]]]
  /\ IF at + 1 = 2 * Sectors THEN pc' = "root" /\ at' = 0 ELSE at' = at + 1 /\ UNCHANGED pc
  /\ UNCHANGED <<page, body, call, batch, chain, left, calls, scars>>

FormatRoot ==
  /\ pc = "root"
  /\ page' = [page EXCEPT ![Root] = EmptyPage]
  /\ body' = [body EXCEPT ![Root] = NoPiece]
  /\ Finish /\ scars' = {}
  /\ UNCHANGED <<fat, calls>>

-----------------------------------------------------------------------------
Writes == \/ MarkDeleted \/ NothingToDelete \/ FreeChain \/ FreeMirror
          \/ Claim \/ LinkChain \/ LinkMirror \/ WriteData
          \/ WriteEntry \/ Extend \/ ExtendMirror \/ Hook \/ HookMirror \/ ClearPage
          \/ Done \/ FormatTables \/ FormatRoot

Next == \/ \E n \in Saved \union {Photo}, size \in Sizes : Save(n, size)
        \/ \E n \in Names : Delete(n)
        \/ Test \/ Format
        \/ Writes \/ Stop \/ TestGoesOn

\* A call runs to its end in one go; nothing makes the user begin another.
Spec == Init /\ [][Next]_vars /\ WF_vars(Writes)
-----------------------------------------------------------------------------
(* Properties. *)

\* Types, and what the locals stand for: data goes down the chain that was found.
TypeOK ==
  /\ fat \in [1..2 -> [Clusters -> 0..Eoc]]
  /\ page \in [Clusters -> [1..PerPage -> Slot]]
  /\ body \in [Clusters -> Piece]
  /\ call \in Calls
  /\ pc \in {"idle", "remove", "free", "mirror", "claim", "link", "linkmirror", "data",
            "entry", "extmirror", "hook", "hookmirror", "clear", "done", "format", "root"}
  /\ at \in Nat /\ batch \subseteq Clusters /\ chain \in Seq(Clusters) /\ left \in 0..MaxSize
  /\ pc \in {"link", "linkmirror", "data", "entry"} => Len(chain) = call.size
  /\ pc = "data" => at = chain[left + 1]
  /\ calls \in 0..MaxCalls
  /\ scars \subseteq {"page", "format", "old"}

Formatted == pc \notin {"format", "root"} /\ scars \cap {"format", "old"} = {}
Files == LET sl == Slots IN {sl[p] : p \in {p \in DOMAIN sl : sl[p].kind = "entry"}}
Intact(e) == e.name # Photo \/ ReadEntry(e) # Damaged   \* not damaged elsewhere

\* A file in the directory owns as many clusters as it is long, ended, in both
\* copies of the table, and shares none with another or with the directory:
\* whatever write the power fails after (delete_file's entry-first order,
\* create_file's entry-last one).
ChainsSound ==
  Formatted =>
    LET files == Files
        path  == [e \in files |-> PathFrom(e.first)]
        dir   == ToSet(Directory)
    IN \A e \in {f \in files : Intact(f)} :
         /\ Len(path[e]) = e.size /\ fat[1][path[e][e.size]] = Eoc
         /\ \A c \in ToSet(path[e]) : fat[1][c] = fat[2][c] /\ c \notin dir
         /\ \A f \in files \ {e} : ToSet(path[e]) \cap ToSet(path[f]) = {}

\* "never a written link into a cluster that is not yet claimed"
\* (allocate_chain), on the whole of the first copy, and of the second where it
\* says the same: what a stop has left there besides is read by nobody. The link
\* by which the damaged card's photo loops is not the device's.
LinksClaimed ==
  Formatted => \A c \in Clusters :
     Chained(fat[1][c]) /\ <<c, fat[1][c]>> # LoopBack =>
       /\ fat[1][fat[1][c]] # 0
       /\ fat[2][c] = fat[1][c] => fat[2][fat[1][c]] # 0

\* After every single write, and whatever write was the last one, the table is
\* one that a reader of the card can follow.
TableSound == TypeOK /\ ChainsSound /\ LinksClaimed

\* A name is in the directory once: every save takes the old entry away first,
\* and does not write if it could not. The test does not look at the outcome
\* of its deletion, so its own name is left out. What is listed besides is
\* noise only where the power went between linking a page and clearing it;
\* where that page was one from before a format, its old entries are back, and
\* a name can be there twice.
DirectoryTrue ==
  /\ Formatted => \A n \in Names \ {TestName} : Cardinality(Hits(n)) <= 1
  /\ "page" \notin scars => LET sl == Slots IN \A p \in DOMAIN sl : sl[p].kind # "noise"

\* A reader of the card and the call's purpose, as the user sees them.
ShelfOf(n) == IF Formatted THEN ReadBack(n) ELSE Unknown
WorkOf == IF pc = "idle" \/ call.name \in {TestName, Absent} THEN [name |-> Absent, version |-> Absent]
          ELSE [name |-> call.name, version |-> IF call.kind = "delete" THEN Absent ELSE call.version]
Store == INSTANCE FileStore WITH store <- [n \in Names \ {TestName} |-> ShelfOf(n)],
                                 Names <- Names \ {TestName}, work <- WorkOf
\* The one stop by which names of before a format come back, over clusters of other
\* files: write_dir_entry_to_root has linked a page and not cleared it.
OldPageBack == "old" \in scars' \ scars
\* Saving is FileStore's, whatever is cut off where: delete_file takes its name away at
\* its first write, create_file puts the whole new version there with its last, and no
\* other write or stop changes what a reader is given of any file; OldPageBack excepted.
KeepsPromise == Store!Init /\ [][Store!Next \/ OldPageBack]_Store!vars
\* The same without the exception, which five calls refute.
AlwaysKept == Store!Spec

\* Every call ends; delete_file counts on zeroing as it walks for the end of a
\* chain that a damaged card has closed into a loop.
EveryCallEnds == pc # "idle" ~> pc = "idle"

\* "display_name contains the LFN if available, otherwise the formatted 8.3
\* name": the long name a listing shows for a file is that file's own.
LongNameAt(sl, p) ==
  LET above == {q \in DOMAIN sl : Before(q, p)}
      others == {q \in above : sl[q].kind # "long"}
  IN {sl[q].name : q \in {q \in above : \A o \in others : Before(o, q)}}
ShownUnderOwnName ==
  Formatted => LET sl == Slots IN \A p \in Listed(sl) : LongNameAt(sl, p) \subseteq {sl[p].name}
=============================================================================
