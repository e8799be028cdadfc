----------------------------- MODULE NvsStorage -----------------------------
(***************************************************************************)
(* Non-volatile storage of components/nvs_flash/src: Page (nvs_page.cpp),  *)
(* PageManager (nvs_pagemanager.cpp) and Storage (nvs_storage.cpp).  A     *)
(* value is written next to the old one, which is erased afterwards; pages *)
(* are filled one after the other, and one page is kept free so that the   *)
(* items of a page can be moved before it is erased.                       *)
(*                                                                         *)
(* An operation plans the flash operations of its next stage into `job';   *)
(* power may be lost before, in the middle of or after each of those, and  *)
(* init then repairs what it finds.  Data is counted in entries.           *)
(***************************************************************************)
EXTENDS Integers, SequencesExt, FiniteSetsExt

CONSTANTS PageCount,    \* sectors of the partition
          EntryCount,   \* ENTRY_COUNT (of at most one word of the entry table)
          Scalars,      \* keys of items of one entry
          Blobs,        \* keys of blobs
          Values,       \* values of the former
          Sizes,        \* blobs; a blob of n entries of data has the value n
          SmallTail     \* CHUNK_MAX_SIZE / 10: no first chunk in less room

ASSUME NvsAssumption ==
    /\ PageCount \in Nat /\ PageCount > 2 /\ EntryCount \in 2 .. 16
    /\ Sizes \subseteq Nat \ {0} /\ SmallTail \in Nat

VARIABLES
    page,       \* the flash: state of each page and its entries
    order,      \* pages with a valid header, by sequence number
    fresh,      \* the activated page whose header is not yet written, or 0
    free,       \* mFreePageList
    pc,         \* stage of init or of an operation
    job,        \* flash operations still to be made
    op,         \* the operation under way
    promise     \* ghost: what each key may hold; nothing for a spoiled blob

vars == <<page, order, fresh, free, pc, job, op, promise>>

Pages   == 1 .. PageCount
Entries == 1 .. EntryCount
Keys    == Scalars \union Blobs
Nothing == 0    \* the value of a key that is not stored

CHUNK_ANY == 255
VER_0 == 0
VER_1 == 128

-----------------------------------------------------------------------------
(* Entries and items *)

\* An entry is empty, half written (its state is still empty), erased, part of
\* the data of an item, or the first entry of an item.
Entry(type, key, chunk, span, val) ==
    [type |-> type, key |-> key, chunk |-> chunk, span |-> span, val |-> val]
Raw(type) == Entry(type, "", CHUNK_ANY, 1, Nothing)
Empty  == Raw("empty")
Half   == Raw("half")
Erased == Raw("erased")
Data   == Raw("data")

BlankPage(s) == [state |-> s, ent |-> [i \in Entries |-> Empty]]
IsItem(e) == e.type \in {"u8", "chunk", "index"}

\* The members of S, a subset of 1 .. n, in ascending order.
InOrder(n, S) == SelectSeq([i \in 1 .. n |-> i], LAMBDA i : i \in S)

\* mPageList, and the pages and entries of all items in the order of a search.
PageList == IF fresh = 0 THEN order ELSE Append(order, fresh)
Current  == Last(PageList)
Before(x, y) ==
    LET at(z) == CHOOSE n \in DOMAIN order : order[n] = z[1]
    IN  at(x) < at(y) \/ (x[1] = y[1] /\ x[2] < y[2])
At(x) == page[x[1]].ent[x[2]]
Items == {x \in Range(order) \X Entries : IsItem(At(x))}
First(S) == CHOOSE x \in S : \A y \in S : x = y \/ Before(x, y)

\* Storage::findItem finds the first of these.
Found(key, type, chunk) ==
    {x \in Range(order) \X Entries :
       At(x).type = type /\ At(x).key = key /\ At(x).chunk = chunk}
Indexes(key, start) ==
    {x \in Found(key, "index", CHUNK_ANY) : At(x).val.start = start}

used(p) == Cardinality({i \in Entries : page[p].ent[i].type = "data" \/ IsItem(page[p].ent[i])})
\* mNextFreeEntry, and getVarDataTailroom.
nextFree(p) == Min({i \in Entries : page[p].ent[i] = Empty} \union {EntryCount + 1})
tailroom(p) == IF page[p].state = "FULL" THEN 0 ELSE Max({0, EntryCount - nextFree(p)})

\* readItem and readMultiPageBlob.
Lookup(key) ==
    IF key \in Scalars
    THEN LET S == Found(key, "u8", CHUNK_ANY)
         IN  IF S = {} THEN Nothing ELSE At(First(S)).val
    ELSE LET S == Found(key, "index", CHUNK_ANY)
             idx == At(First(S)).val
             chunk(n) == Found(key, "chunk", idx.start + n)
             parts == 0 .. idx.count - 1
         IN  IF S = {} THEN Nothing
             ELSE IF /\ \A n \in parts : chunk(n) # {} /\ At(First(chunk(n))).val = idx.size
                     /\ idx.size = MapThenSumSet(LAMBDA n : At(First(chunk(n))).span - 1, parts)
             THEN idx.size ELSE -1

\* Blobs of which a cleanup left chunks, or a cleanup or init took some.
Spoiled == {k \in Keys : promise[k] = {}}
\* What the others hold now is what they are to hold.
Held == [k \in Keys |-> IF k \in Spoiled THEN {} ELSE {Lookup(k)}]

-----------------------------------------------------------------------------
(* Flash operations *)

\* writeEntry or writeEntryData writes the entries and then their states.
WriteEntries(p, i, s) == [op |-> "write", at |-> p, i |-> i, to |-> s]
Table(p, i, s)        == [op |-> "table", at |-> p, i |-> i, to |-> s]
SetState(p, s)        == [op |-> "state", at |-> p, i |-> 0, to |-> s]
Header(p)             == [op |-> "header", at |-> p, i |-> 0, to |-> <<>>]
Wipe(p)               == [op |-> "erase", at |-> p, i |-> 0, to |-> <<>>]

\* Page::writeItem; a page that is not initialized gets its header first.
WriteItem(p, i, e, uninitialized) ==
    (IF uninitialized THEN <<Header(p)>> ELSE <<>>)
    \o <<WriteEntries(p, i, <<e>>)>>
    \o IF e.span = 1 THEN <<>>
       ELSE <<WriteEntries(p, i + 1, [j \in 1 .. e.span - 1 |-> Data])>>
\* eraseEntryAndSpan
EraseItem(x) == <<Table(x[1], x[2], [j \in 1 .. At(x).span |-> Erased])>>
EraseAll(S) == LET s == SetToSortSeq(S, Before)
               IN  FlattenSeq([n \in DOMAIN s |-> EraseItem(s[n])])

Over(ent, i, s) == [j \in Entries |-> IF j \in i .. i + Len(s) - 1 THEN s[j - i + 1] ELSE ent[j]]

FlashStep ==
    /\ job # <<>> /\ job' = Tail(job)
    /\ LET o == Head(job)
           p == o.at
       IN  /\ page' = [page EXCEPT ![p] =
                CASE o.op = "state"  -> [@ EXCEPT !.state = o.to]
                  [] o.op = "header" -> [@ EXCEPT !.state = "ACTIVE"]
                  [] o.op = "erase"  -> BlankPage("UNINITIALIZED")
                  [] o.op \in {"write", "table"} -> [@ EXCEPT !.ent = Over(@, o.i, o.to)]]
           /\ order' = CASE o.op = "header" -> Append(order, p)
                         [] o.op = "erase"  -> SelectSeq(order, LAMBDA q : q # p)
                         [] OTHER -> order
           /\ fresh' = IF o.op = "header" THEN 0 ELSE fresh
           /\ free' = IF o.op = "erase" /\ p \in Range(order) /\ p # fresh
                      THEN Append(free, p) ELSE free
    /\ UNCHANGED <<pc, op, promise>>

\* Page states and entry states change in one word; the others may be torn.  Of
\* entries any number may be written, all of them too, and their states not yet.
Torn(o) ==
    CASE o.op = "write" -> {[page[o.at] EXCEPT !.ent = Over(@, o.i, [j \in 1 .. n |-> Half])] :
                              n \in 1 .. Len(o.to)}
      [] o.op \in {"header", "erase"} -> {BlankPage("CORRUPT")}
      [] OTHER -> {}

PowerLoss ==
    /\ pc # "off" /\ pc' = "off"
    /\ \/ UNCHANGED page
       \/ job # <<>> /\ \E v \in Torn(Head(job)) : page' = [page EXCEPT ![Head(job).at] = v]
    /\ order' = SelectSeq(order, LAMBDA p : page'[p].state # "CORRUPT")
    /\ promise' = IF pc = "run" /\ job = <<>> THEN Held ELSE promise
    /\ fresh' = 0 /\ free' = <<>> /\ job' = <<>> /\ op' = <<>>

-----------------------------------------------------------------------------
(* Pages: PageManager *)

Clean(p) == IF page[p].state = "CORRUPT" THEN <<Wipe(p)>> ELSE <<>>

\* Page::copyItems, entry by entry; the new page is initialized if there are any.
Copy(p, new) ==
    LET kept == InOrder(EntryCount, {i \in Entries : page[p].ent[i] \notin {Empty, Half, Erased}})
    IN  IF kept = <<>> THEN <<>>
        ELSE <<Header(new)>> \o [n \in 1 .. Len(kept) |->
                                   WriteEntries(new, n, <<page[p].ent[kept[n]]>>)]

\* The page with the most unused entries, the oldest of them.
Victim == LET unused(p) == EntryCount - used(p)
              most == Max({unused(p) : p \in Range(PageList)})
          IN  [page |-> PageList[Min({n \in DOMAIN PageList : unused(PageList[n]) = most})],
               unused |-> most]

NoPage == [ok |-> FALSE, ops |-> <<>>, new |-> 0, used |-> 0]

\* Fault: the victim is not marked before its items are moved.
request_unmarked ==
    LET new == Head(free)
        v == Victim
    IN  CASE free = <<>> -> NoPage
          [] Len(free) >= 2 -> [ok |-> TRUE, ops |-> Clean(new), new |-> new, used |-> 0]
          [] Len(free) = 1 /\ v.unused = 0 -> NoPage
          [] OTHER -> [ok |-> TRUE, new |-> new, used |-> used(v.page),
                       ops |-> Clean(new) \o Copy(v.page, new) \o <<Wipe(v.page)>>]

\* What requestNewPage does: it activates a page if another stays free, or else
\* moves the items of the victim to the last free page and erases the victim.
requestNewPage ==
    LET new == Head(free)
        v == Victim
    IN  CASE free = <<>> -> NoPage
          [] Len(free) >= 2 -> [ok |-> TRUE, ops |-> Clean(new), new |-> new, used |-> 0]
          [] Len(free) = 1 /\ v.unused = 0 -> NoPage
          [] OTHER -> [ok |-> TRUE, new |-> new, used |-> used(v.page),
                       ops |-> <<SetState(v.page, "FREEING")>> \o Clean(new)
                               \o Copy(v.page, new) \o <<Wipe(v.page)>>]

MarkFull == IF page[Current].state = "FULL" THEN <<>> ELSE <<SetState(Current, "FULL")>>

Activated(r) ==
    IF r.ok THEN fresh' = r.new /\ free' = Tail(free) ELSE UNCHANGED <<fresh, free>>

-----------------------------------------------------------------------------
(* Storage::init *)

Init ==
    /\ page = [p \in Pages |-> BlankPage("UNINITIALIZED")]
    /\ order = <<>> /\ fresh = 0 /\ free = <<>>
    /\ pc = "off" /\ job = <<>> /\ op = <<>>
    /\ promise = [k \in Keys |-> {Nothing}]

\* mLoadEntryTable.  An item is whole if all its entries are written.
Whole(p, i) == \A j \in i + 1 .. i + page[p].ent[i].span - 1 : page[p].ent[j] = Data
Same(p, i)  == {j \in 1 .. i - 1 : /\ IsItem(page[p].ent[j]) /\ Whole(p, j)
                                   /\ page[p].ent[j].key = page[p].ent[i].key
                                   /\ page[p].ent[j].chunk = page[p].ent[i].chunk}

\* Entries of the active page that are half written, behind the written ones.
Halves(p) == LET e == page[p].ent
                 end == Min({i \in Entries : e[i] \in {Empty, Half}} \union {EntryCount + 1})
             IN  {i \in Entries : i >= end /\ \A j \in end .. i : e[j] = Half}

\* The last item of the active page is looked for by its type and key alone:
\* if it is a chunk, the first chunk of the blob on the page is found instead.
LastTwin(p) ==
    LET e == page[p].ent
        last == {i \in Entries : /\ IsItem(e[i]) /\ Whole(p, i) /\ Halves(p) = {}
                                 /\ i + e[i].span = nextFree(p)}
        left(j, i) == Whole(p, j) /\ ~ \E n \in j + 1 .. i : j \in Same(p, n) /\ Whole(p, n)
        twins == {j \in Entries : \E i \in last :
                    /\ j < i /\ e[j].type = "chunk" /\ e[i].type = "chunk"
                    /\ e[j].key = e[i].key /\ left(j, i)}
    IN  IF page[p].state # "ACTIVE" \/ twins = {} THEN {} ELSE {<<p, Min(twins)>>}

\* Half-written entries, items that are not whole and, on the active page, the
\* older of two items of the same key and the twin of the last one are erased.
TableOps(p) ==
    LET items == InOrder(EntryCount, {i \in Entries : IsItem(page[p].ent[i])})
        halves == InOrder(EntryCount, Halves(p))
        active == page[p].state = "ACTIVE"
        repair(i) == IF ~Whole(p, i) THEN EraseItem(<<p, i>>)
                     ELSE IF active /\ Same(p, i) # {} THEN EraseItem(<<p, Max(Same(p, i))>>)
                     ELSE <<>>
    IN  (IF active THEN [n \in DOMAIN halves |-> Table(p, halves[n], <<Erased>>)] ELSE <<>>)
        \o FlattenSeq([n \in DOMAIN items |-> repair(items[n])])
        \o EraseAll(LastTwin(p))

\* A chunk that belongs to a stored blob.
Stored(x) == \E y \in Found(At(x).key, "index", CHUNK_ANY) :
    At(x).chunk \in At(y).val.start .. At(y).val.start + At(y).val.count - 1

\* Page::load of all pages; an empty partition gets its first page.
load ==
    /\ pc = "off"
    /\ LET unused == InOrder(PageCount, Pages \ Range(order))
       IN  IF order = <<>>
           THEN /\ fresh' = 1 /\ free' = Tail(unused)
                /\ job' = Clean(1) /\ pc' = "blobs" /\ UNCHANGED promise
           ELSE /\ fresh' = 0 /\ free' = unused
                /\ job' = FlattenSeq([n \in DOMAIN order |-> TableOps(order[n])])
                /\ promise' = [k \in Keys |->
                     IF \E p \in Pages : \E x \in LastTwin(p) : At(x).key = k /\ Stored(x)
                     THEN {} ELSE promise[k]]
                /\ pc' = "dedupe"
    /\ UNCHANGED <<page, order, op>>

\* The stages of PageManager::load that follow erase or move something, or are
\* passed over at once.  If the last item written is also in an earlier page ...
Twins == LET last == {x \in Items : x[1] = Last(order)}
             x == CHOOSE y \in last : \A z \in last : z[2] <= y[2]
         IN  IF last = {} THEN {}
             ELSE {y \in Found(At(x).key, At(x).type, At(x).chunk) :
                     y[1] # x[1] /\ page[y[1]].state # "FREEING"}

\* ... or a page is being freed, and there is one to move its items to.
Freeing == SelectSeq(order, LAMBDA p : page[p].state = "FREEING")
Drop == page[Last(order)].state = "ACTIVE"
MustFree == Freeing # <<>> /\ (free # <<>> \/ Drop)

Deduped == job = <<>> /\ (pc = "free" \/ (pc = "dedupe" /\ Twins = {}))
Loaded  == job = <<>> /\ (pc = "blobs" \/ (Deduped /\ ~MustFree))

\* Fault: the last item is not looked for in the earlier pages.
dedupe_nothing ==
    /\ pc = "dedupe" /\ job = <<>> /\ Twins # {} /\ pc' = "free"
    /\ UNCHANGED <<page, order, fresh, free, job, op, promise>>

\* The earlier of the two is erased.
load_dedupe ==
    /\ pc = "dedupe" /\ job = <<>> /\ Twins # {} /\ pc' = "free"
    /\ job' = EraseItem(First(Twins))
    /\ UNCHANGED <<page, order, fresh, free, op, promise>>

\* A page being freed is freed again from the start.
load_free ==
    /\ Deduped /\ MustFree /\ pc' = "blobs"
    /\ LET last == Last(order)
           new == IF free = <<>> THEN last ELSE Head(free)
       IN  /\ job' = (IF Drop THEN <<Wipe(last)>> ELSE <<>>) \o Clean(new)
                     \o Copy(Head(Freeing), new) \o <<Wipe(Head(Freeing))>>
           /\ fresh' = new
           /\ free' = IF free = <<>> THEN <<>> ELSE Tail(free)
    /\ UNCHANGED <<page, order, op, promise>>

\* Without a free page init fails (ESP_ERR_NVS_NO_FREE_PAGES).  Otherwise it goes on
\* with eraseMismatchedBlobIndexes and eraseOrphanDataBlobs.
init_blobs ==
    /\ Loaded /\ pc' = IF free = <<>> THEN "failed" ELSE "done"
    /\ LET chunks == {x \in Items : At(x).type = "chunk"}
           indexes == {x \in Items : At(x).type = "index"}
           family(x) == {c \in chunks : /\ At(c).key = At(x).key
                                        /\ (At(c).chunk >= VER_1) = (At(x).val.start = VER_1)}
           good == {x \in indexes :
                      /\ Cardinality(family(x)) = At(x).val.count
                      /\ MapThenSumSet(LAMBDA c : At(c).span - 1, family(x)) = At(x).val.size}
           owned == {c \in chunks : \E x \in good :
                       c \in family(x) /\ At(c).chunk < At(x).val.start + At(x).val.count}
       IN  job' = IF free = <<>> THEN <<>>
                  ELSE EraseAll(indexes \ good) \o EraseAll(chunks \ owned)
    /\ UNCHANGED <<page, order, fresh, free, op, promise>>

\* The storage is active.  What a spoiled blob reads as it holds from now on, if
\* it can be read, or is gone.
init_done ==
    /\ pc = "done" /\ job = <<>> /\ pc' = "run"
    /\ promise' = [k \in Keys |->
                     IF k \in Spoiled THEN {Lookup(k)} \ {-1}
                     ELSE IF Lookup(k) \in promise[k] THEN {Lookup(k)} ELSE promise[k]]
    /\ UNCHANGED <<page, order, fresh, free, job, op>>

-----------------------------------------------------------------------------
(* Storage: writing and erasing *)

Ready == pc = "run" /\ job = <<>>

\* An operation begins: its key may hold the old value or `goal'.  It keeps
\* where the old item is (findPage, itemIndex) and which page it activates.
Begin(key, val, start, goal, new) ==
    /\ LET S == Found(key, "u8", CHUNK_ANY)
       IN  op' = [key |-> key, val |-> val, start |-> start, count |-> 0, left |-> val,
                  pages |-> <<>>, old |-> Lookup(key), goal |-> goal,
                  at |-> IF S = {} THEN <<>> ELSE First(S), new |-> new]
    /\ promise' = [Held EXCEPT ![key] = IF @ = {} THEN {} ELSE @ \union {goal}]

\* writeItem of a value of one entry.
set_scalar(key, v) ==
    /\ Ready /\ Lookup(key) # v
    /\ LET cur == Current
           item == Entry("u8", key, CHUNK_ANY, 1, v)
           r == requestNewPage
       IN  IF page[cur].state # "FULL" /\ nextFree(cur) <= EntryCount
           THEN /\ job' = WriteItem(cur, nextFree(cur), item, cur = fresh)
                /\ pc' = "previous" /\ Begin(key, v, 0, v, 0)
                /\ UNCHANGED <<fresh, free>>
           ELSE /\ Activated(r)
                /\ IF r.ok
                   THEN /\ job' = MarkFull \o r.ops \o WriteItem(r.new, r.used + 1, item, r.used = 0)
                        /\ pc' = "previous" /\ Begin(key, v, 0, v, r.new)
                   ELSE /\ job' = MarkFull
                        /\ pc' = "return" /\ Begin(key, v, 0, Lookup(key), 0)
    /\ UNCHANGED <<page, order>>

\* writeItem of a blob, which goes on with writeMultiPageBlob; the new version
\* has other chunk numbers than the old one.  cmpMultiPageBlob finds that a blob
\* is the same if it is one chunk (it compares each with the start of the data).
set_blob(key, size) ==
    /\ Ready /\ size <= (PageCount - 1) * (EntryCount - 1)
    /\ LET S == Found(key, "index", CHUNK_ANY)
       IN  /\ ~(Lookup(key) = size /\ At(First(S)).val.count = 1)
           /\ Begin(key, size, IF S # {} /\ At(First(S)).val.start = VER_0 THEN VER_1 ELSE VER_0, size, 0)
    /\ pc' = "chunk"
    /\ UNCHANGED <<page, order, fresh, free, job>>

\* The first chunk does not go into the little room left in the current page.
blob_skip ==
    /\ pc = "chunk" /\ job = <<>>
    /\ LET room == tailroom(Current)
           r == requestNewPage
           after == Max({0, EntryCount - r.used - 1})
       IN  /\ op.count = 0 /\ room < op.val /\ room < SmallTail
           /\ job' = MarkFull \o r.ops /\ Activated(r)
           /\ IF r.ok /\ after # room THEN pc' = "chunk" /\ UNCHANGED op
              ELSE pc' = "return" /\ op' = [op EXCEPT !.goal = op.old]
    /\ UNCHANGED <<page, order, promise>>

\* A chunk as large as fits.
blob_chunk ==
    /\ pc = "chunk" /\ job = <<>>
    /\ LET room == tailroom(Current)
           size == Min({op.left, room})
       IN  /\ ~(op.count = 0 /\ room < op.val /\ room < SmallTail)
           /\ IF room = 0 THEN pc' = "cleanup" /\ UNCHANGED <<job, op>>
              ELSE /\ job' = WriteItem(Current, nextFree(Current),
                               Entry("chunk", op.key, op.start + op.count, size + 1, op.val),
                               Current = fresh)
                   /\ op' = [op EXCEPT !.count = @ + 1, !.left = @ - size,
                                       !.pages = Append(@, Current)]
                   /\ pc' = IF op.left > size \/ room - size < 1 THEN "grow" ELSE "index"
    /\ UNCHANGED <<page, order, fresh, free, promise>>

blob_grow ==
    /\ pc = "grow" /\ job = <<>>
    /\ LET r == requestNewPage
       IN  /\ job' = MarkFull \o r.ops /\ Activated(r)
           /\ pc' = IF ~r.ok THEN "cleanup" ELSE IF op.left > 0 THEN "chunk" ELSE "index"
    /\ UNCHANGED <<page, order, op, promise>>

blob_index ==
    /\ pc = "index" /\ job = <<>> /\ pc' = "previous"
    /\ job' = WriteItem(Current, nextFree(Current),
                Entry("index", op.key, CHUNK_ANY, 1,
                      [size |-> op.val, count |-> op.count, start |-> op.start]),
                Current = fresh)
    /\ UNCHANGED <<page, order, fresh, free, op, promise>>

\* A blob that does not fit: chunks numbered from 0 are erased from the pages
\* that were written to, whichever version was being written.
blob_cleanup ==
    /\ pc = "cleanup" /\ job = <<>> /\ pc' = "return"
    /\ LET written(n) == {x \in Found(op.key, "chunk", n - 1) : x[1] = op.pages[n]}
           missed == {n \in DOMAIN op.pages : op.start # VER_0 \/ written(n) = {}}
       IN  /\ job' = FlattenSeq([n \in DOMAIN op.pages |->
                       IF written(n) = {} THEN <<>> ELSE EraseItem(First(written(n)))])
           /\ promise' = IF missed = {} THEN promise ELSE [promise EXCEPT ![op.key] = {}]
    /\ op' = [op EXCEPT !.goal = op.old]
    /\ UNCHANGED <<page, order, fresh, free>>

\* eraseMultiPageBlob: the index, then the chunks up to one that is missing.
EraseBlob(key, start) ==
    LET x == First(Indexes(key, start))
        chunk(n) == Found(key, "chunk", start + n - 1)
        n == Max({m \in 0 .. At(x).val.count : \A j \in 1 .. m : chunk(j) # {}})
    IN  EraseItem(x) \o FlattenSeq([j \in 1 .. n |-> EraseItem(First(chunk(j)))])

\* Fault: the page of the old value is not checked for having been moved.
erase_unchecked ==
    /\ pc = "previous" /\ job = <<>> /\ pc' = "return"
    /\ job' = IF op.old = Nothing THEN <<>>
              ELSE IF op.key \in Scalars THEN EraseItem(op.at)
              ELSE EraseBlob(op.key, VER_0 + VER_1 - op.start)
    /\ UNCHANGED <<page, order, fresh, free, op, promise>>

\* The previous value is erased where it was found, unless its page has been
\* freed since, or freed and activated again: then it is searched once more.
erase_previous ==
    /\ pc = "previous" /\ job = <<>> /\ pc' = "return"
    /\ LET wasRelocated == \/ page[op.at[1]].state \notin {"ACTIVE", "FULL"}
                           \/ op.at[1] = op.new
       IN  job' = IF op.old = Nothing THEN <<>>
                  ELSE IF op.key \in Blobs THEN EraseBlob(op.key, VER_0 + VER_1 - op.start)
                  ELSE EraseItem(IF wasRelocated THEN First(Found(op.key, "u8", CHUNK_ANY)) ELSE op.at)
    /\ UNCHANGED <<page, order, fresh, free, op, promise>>

eraseItem(key) ==
    /\ Ready /\ Lookup(key) # Nothing
    /\ Begin(key, 0, 0, Nothing, 0) /\ pc' = "return"
    /\ job' = IF key \in Scalars THEN EraseItem(First(Found(key, "u8", CHUNK_ANY)))
              ELSE EraseBlob(key, At(First(Found(key, "index", CHUNK_ANY))).val.start)
    /\ UNCHANGED <<page, order, fresh, free>>

\* readMultiPageBlob: if a chunk is missing, or too long for what is left to read,
\* the indexes and chunks of the key are erased (eraseMultiPageBlob, VER_ANY).
readBlob(key) ==
    /\ Ready /\ Found(key, "index", CHUNK_ANY) # {}
    /\ LET idx == At(First(Found(key, "index", CHUNK_ANY))).val
           chunk(n) == Found(key, "chunk", idx.start + n)
           length(n) == MapThenSumSet(LAMBDA m : At(First(chunk(m))).span - 1, 0 .. n)
           of(type) == {x \in Items : At(x).key = key /\ At(x).type = type}
       IN  /\ \E n \in 0 .. idx.count - 1 :
                (\A m \in 0 .. n : chunk(m) # {}) => length(n) > idx.size
           /\ job' = EraseAll(of("index")) \o EraseAll(of("chunk"))
    /\ Begin(key, 0, 0, Nothing, 0) /\ pc' = "return"
    /\ UNCHANGED <<page, order, fresh, free>>

\* A spoiled blob of which nothing is left is spoiled no more.
return ==
    /\ pc = "return" /\ job = <<>> /\ pc' = "run"
    /\ promise' = [promise EXCEPT ![op.key] =
                     IF @ # {} THEN {op.goal}
                     ELSE IF \E x \in Items : At(x).key = op.key THEN {} ELSE {Nothing}]
    /\ op' = <<>>
    /\ UNCHANGED <<page, order, fresh, free, job>>

-----------------------------------------------------------------------------

Write == \/ blob_skip \/ blob_chunk \/ blob_grow \/ blob_index \/ blob_cleanup
         \/ erase_previous \/ return

Client == \/ \E k \in Scalars : \E v \in Values : set_scalar(k, v)
          \/ \E k \in Blobs : \E n \in Sizes : set_blob(k, n)
          \/ \E k \in Keys : eraseItem(k)
          \/ \E k \in Blobs : readBlob(k)

Next == \/ load \/ load_dedupe \/ load_free \/ init_blobs \/ init_done
        \/ Client \/ Write \/ FlashStep \/ PowerLoss

Spec == Init /\ [][Next]_vars

-----------------------------------------------------------------------------
(* Properties *)

\* When no call is under way every key holds what it should: the last value
\* written, or erased, by a call that returned; the value it had before a call
\* that failed; and for a call that power loss interrupted the old value or the
\* new one, and from then on always the same.  Except for a blob that is spoiled:
\* a write of it ran out of space and its cleanup missed a chunk (or took one of
\* the other version), or init took a chunk of it for an older last item of the
\* page.  It is spoiled until an init leaves it readable, or nothing of it is left.
ValuesKept == Ready => \A k \in Keys \ Spoiled : Lookup(k) \in promise[k]

\* No duplicates and no chunks without their index are left behind, neither by
\* calls nor by power losses, but for the chunks of a spoiled blob.
NothingLeftBehind ==
    Ready => \A x \in {y \in Items : At(y).key \notin Spoiled} :
      /\ \A y \in Items : At(x).key = At(y).key /\ At(x).chunk = At(y).chunk => x = y
      /\ At(x).type = "chunk" => Stored(x)

\* Init never fails, and between calls a page is free and none is being freed.
ReserveKept ==
    /\ pc # "failed"
    /\ Ready => free # <<>> /\ \A p \in Pages : page[p].state # "FREEING"

\* That no blob is ever spoiled.  It fails (README, Disagreements).
NothingSpoiled == Spoiled = {}
=============================================================================
