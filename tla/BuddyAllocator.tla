--------------------------- MODULE BuddyAllocator ---------------------------
(***************************************************************************)
(* The pool from which contribution blocks, backups and the data of block  *)
(* columns are taken: buddy_alloc_internal::Table and its Pages, called    *)
(* under the lock of the table.                                            *)
(*                                                                         *)
(* The free lists are sequences, head first.  A block is freed into the    *)
(* list of its level, or merged with its partner if this is in that list;  *)
(* next_[partner], which the code reads first and which may be             *)
(* uninitialised, does not change the outcome: no block of a list carries  *)
(* ISSUED_FLAG.                                                            *)
(*                                                                         *)
(* A definition marked "fault" is the next one of its name with a mistake  *)
(* in it: it is used by nothing here, and shows what a property catches.   *)
(***************************************************************************)
EXTENDS Integers, FiniteSets, FiniteSetsExt, Functions, Sequences, SequencesExt

CONSTANTS
  nlevel,        \* divisions to the smallest unit (16 in the code)
  align,         \* alignment of all pointers (16, 32 or 64)
  AddrMod,       \* uintptr_t counts modulo AddrMod (2^64)
  IntMod,        \* int counts modulo IntMod (2^32)
  InitialSize,   \* size of the first page
  Sizes,         \* the sizes the program asks for
  Bases,         \* addresses the underlying allocator may return
  MaxPages, MaxLive      \* bounds on the pages and on the allocations held

ASSUME BuddyAllocatorAssumption ==
  /\ nlevel \in Nat \ {0} /\ align \in Nat \ {0}
  /\ AddrMod \in Nat \ {0} /\ IntMod \in Nat \ {0}
  /\ InitialSize \in Nat \ {0} /\ Sizes \subseteq Nat \ {0}
  /\ Bases \subseteq Nat \ {0}
  /\ MaxPages \in Nat \ {0} /\ MaxLive \in Nat
  /\ 2^(nlevel - 1) <= IntMod \div 2          \* the units of a page can be counted

VARIABLES
  pages,         \* Table::pages_
  max_sz,        \* Table::max_sz_
  live           \* what the program holds: where it starts and what it asked for

vars == <<pages, max_sz, live>>

Levels == 0..(nlevel - 1)
Units  == 2^(nlevel - 1)        \* smallest blocks in a page

-----------------------------------------------------------------------------
(* Page.                                                                    *)

RoundUp(n, m) == m * ((n + m - 1) \div m)
min_size(size) == RoundUp((size + Units - 1) \div Units, align)

NewPage(size, b) ==
  [min |-> min_size(size), size |-> min_size(size) * Units, base |-> b,
   free |-> [l \in Levels |-> IF l = nlevel - 1 THEN <<0>> ELSE <<>>]]

(* Next power of 2 higher than the number of units: the level of a size     *)
(* that fills a block exactly is the one above, nlevel for the whole page.  *)
sz_to_level(p, sz) == Min({l \in 0..nlevel : (sz \div p.min) \div 2^l = 0})

get_partner(idx, level) ==
  IF (idx \div 2^level) % 2 = 0 THEN idx + 2^level ELSE idx - 2^level

(* The lowest list that has a block to split down to level.                 *)
Sources(p, level) == {l \in level..(nlevel - 1) : p.free[l] # <<>>}
CanAllocate(p, sz) == sz <= p.size /\ Sources(p, sz_to_level(p, sz)) # {}

NextBlock(p, level) == Head(p.free[Min(Sources(p, level))])

get_next_ptr_WrongPartner(p, level) ==                         \* fault
  LET top == Min(Sources(p, level))
      block == NextBlock(p, level)
  IN [p EXCEPT !.free = [l \in Levels |->
        IF l = top THEN Tail(@[l])
        ELSE IF l \in level..(top - 1) THEN <<get_partner(block, l + 1)>>
        ELSE @[l]]]

(* A block is taken from its list, and split: the right half of each split  *)
(* is the only one of its list, the left half is split further.             *)
get_next_ptr(p, level) ==
  LET top == Min(Sources(p, level))
      block == NextBlock(p, level)
  IN [p EXCEPT !.free = [l \in Levels |->
        IF l = top THEN Tail(@[l])
        ELSE IF l \in level..(top - 1) THEN <<get_partner(block, l)>>
        ELSE @[l]]]

(* The block that idx is merged into at a level, by taking the lower of the *)
(* partners.                                                                *)
Merged(idx, level) == (idx \div 2^level) * 2^level

PartnerFree(p, idx, level) ==
  get_partner(Merged(idx, level), level) \in Range(p.free[level])

(* The list without idx, which is in it once: what comes after it moves up. *)
remove_from_free_list(list, idx) ==
  LET at == CHOOSE n \in DOMAIN list : list[n] = idx
  IN [n \in 1..(Len(list) - 1) |-> list[IF n < at THEN n ELSE n + 1]]

Put(p, idx, level, top) ==
  [p EXCEPT !.free = [l \in Levels |->
     IF l \in level..(top - 1) THEN remove_from_free_list(@[l], get_partner(Merged(idx, l), l))
     ELSE IF l = top THEN <<Merged(idx, l)>> \o @[l]
     ELSE @[l]]]

mark_free_MergeOnce(p, idx, level) ==                          \* fault
  Put(p, idx, level,
      IF level < nlevel - 1 /\ PartnerFree(p, idx, level) THEN level + 1 ELSE level)

mark_free_KeepPartner(p, idx, level) ==                        \* fault
  LET top == Max({t \in level..(nlevel - 1) :
                    \A l \in level..(t - 1) : PartnerFree(p, idx, l)})
  IN [p EXCEPT !.free[top] = <<Merged(idx, top)>> \o @]

(* A block is merged as far up as its partners are free.                    *)
mark_free(p, idx, level) ==
  Put(p, idx, level, Max({t \in level..(nlevel - 1) :
                            \A l \in level..(t - 1) : PartnerFree(p, idx, l)}))

(* A pointer below the page is a large unsigned number of bytes from it,    *)
(* and the number of units is cut to an int.                                *)
ToInt(n) == LET m == n % IntMod IN IF m < IntMod \div 2 THEN m ELSE m - IntMod
ptr_to_addr(p, ptr) == ToInt(((ptr - p.base) % AddrMod) \div p.min)
addr_to_ptr(p, idx) == p.base + idx * p.min

is_owner_OffByOne(p, ptr) ==                                   \* fault
  ptr_to_addr(p, ptr) \in 0..Units
is_owner(p, ptr) == ptr_to_addr(p, ptr) \in 0..(Units - 1)

-----------------------------------------------------------------------------
(* Table.                                                                   *)

(* The memory of a page is as long as the page and its alignment.           *)
Apart(p, q) == p.base + p.size + align <= q.base \/ q.base + q.size + align <= p.base
Fits(p) == \A n \in DOMAIN pages : Apart(p, pages[n])

Init ==
  /\ \E b \in Bases : pages = <<NewPage(InitialSize, b)>>
  /\ max_sz = InitialSize
  /\ live = {}

(* Take a block of page n, the first of ps that has one, if any.            *)
Serve(ps, n, sz) ==
  IF CanAllocate(ps[n], sz)
  THEN LET level == sz_to_level(ps[n], sz)
           ptr == addr_to_ptr(ps[n], NextBlock(ps[n], level))
       IN /\ pages' = [ps EXCEPT ![n] = get_next_ptr(@, level)]
          /\ live' = live \cup {[ptr |-> ptr, sz |-> sz]}
  ELSE pages' = ps /\ UNCHANGED live          \* the program is given nullptr

Able(sz) == {n \in DOMAIN pages : CanAllocate(pages[n], sz)}

AllocateOnPage(sz) ==
  /\ Cardinality(live) < MaxLive
  /\ Able(sz) # {}
  /\ Serve(pages, Min(Able(sz)), sz)
  /\ UNCHANGED max_sz

(* The sizes tried for a new page, each after std::bad_alloc for the one    *)
(* before.                                                                  *)
Tried(sz) == <<Max({2 * max_sz, sz}), Max({max_sz, sz}), sz>>
MaxSzAfter(sz, attempt) == Tried(sz)[IF attempt = 1 THEN 1 ELSE 2]

AllocateOnNewPage(sz) ==
  /\ Cardinality(live) < MaxLive
  /\ Able(sz) = {} /\ Len(pages) < MaxPages
  /\ \E attempt \in DOMAIN Tried(sz), b \in Bases :
       LET p == NewPage(Tried(sz)[attempt], b)
       IN /\ Fits(p)
          /\ Serve(Append(pages, p), Len(pages) + 1, sz)
          /\ max_sz' = MaxSzAfter(sz, attempt)

(* The last std::bad_alloc is for the program.                              *)
AllocateThrows(sz) ==
  /\ Able(sz) = {}
  /\ max_sz' = MaxSzAfter(sz, 3)
  /\ UNCHANGED <<pages, live>>

Deallocate(a) ==
  LET owners == {n \in DOMAIN pages : is_owner(pages[n], a.ptr)}
      n == Min(owners)
      p == pages[n]
  IN /\ live' = live \ {a}
     /\ pages' = IF owners = {} THEN pages
                 ELSE [pages EXCEPT ![n] =
                         mark_free(p, ptr_to_addr(p, a.ptr), sz_to_level(p, a.sz))]
     /\ UNCHANGED max_sz

Next ==
  \/ \E sz \in Sizes : AllocateOnPage(sz) \/ AllocateOnNewPage(sz) \/ AllocateThrows(sz)
  \/ \E a \in live : Deallocate(a)

Spec == Init /\ [][Next]_vars

-----------------------------------------------------------------------------
(* Properties.                                                              *)

Inside(a, p) == p.base <= a.ptr /\ a.ptr + a.sz <= p.base + p.size

(* Page, units first..last, of a free block or of a held one.               *)
FreeUnits(n) ==
  LET p == pages[n]
  IN {[first |-> x[1], last |-> x[1] + 2^(x[2]) - 1] :
        x \in {y \in (0..(Units - 1)) \X Levels : y[1] \in Range(p.free[y[2]])}}
HeldUnits(n) ==
  LET p == pages[n]
  IN {LET i == (a.ptr - p.base) \div p.min
      IN [first |-> i, last |-> i + 2^(sz_to_level(p, a.sz)) - 1] :
        a \in {b \in live : Inside(b, p)}}

(* No two holders share a byte, and each has all it asked for within one    *)
(* page, aligned.                                                           *)
HoldersApart ==
  /\ \A a, b \in live : a # b => a.ptr + a.sz <= b.ptr \/ b.ptr + b.sz <= a.ptr
  /\ \A a \in live : \E n \in DOMAIN pages :
       Inside(a, pages[n]) /\ (a.ptr - pages[n].base) % align = 0

(* Free and held blocks fill each page exactly, whatever was split, merged  *)
(* and given back in whatever order.                                        *)
PagesFilled ==
  \A n \in DOMAIN pages :
    LET blocks == FreeUnits(n) \cup HeldUnits(n)
    IN /\ \A x, y \in blocks : x # y => x.last < y.first \/ y.last < x.first
       /\ UNION {x.first..x.last : x \in blocks} = 0..(Units - 1)

(* A page of which nothing is held any more is one free block: its          *)
(* destructor does not throw "outstanding allocations on cleanup".          *)
CleanupSucceeds ==
  \A n \in DOMAIN pages :
    HeldUnits(n) = {} => pages[n].free[nlevel - 1] # <<>>

(* A block is given back to the page it was taken from.                     *)
OwnerFound ==
  \A a \in live :
    LET owners == {n \in DOMAIN pages : is_owner(pages[n], a.ptr)}
    IN owners # {} /\ Inside(a, pages[Min(owners)])
=============================================================================
