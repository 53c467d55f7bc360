------------------------------- MODULE Caches -------------------------------
(***************************************************************************)
(* Cache maintenance on the ARMv7-A processor: whole caches by set and way *)
(* (cpu_mem.c and the CP15DCache functions of cp15.S) and buffers by       *)
(* address (the CP15DCache*Buff functions).  The caches are a hardware     *)
(* model: levels in front of each other and of memory, write-back, each    *)
(* line in one of the ways of its set.                                     *)
(***************************************************************************)
EXTENDS Integers, Sequences

CONSTANTS
  WIDTH,         \* the bits of an address
  L,             \* the logarithm of the length of a line
  Geometry,      \* Geometry[l]: the sets and ways of each data cache, from level 1 on
  FLD_MAX_IDX,   \* the mask cp15.S has for the number of a set
  Buffers,       \* addresses and lengths that callers may give
  Stored,        \* the bytes programs store in, at most MaxStores times
  MaxStores,
  none

Byte == 0 .. 2^WIDTH - 1
Address == {a \in Byte : a % 2^L = 0}   \* of lines
Level == 1 .. Len(Geometry)
line(a) == a - (a % 2^L)
Data(a) == a .. a + 2^L - 1
Value == {"old", "new"}
Line == UNION {[adr : {a}, dirty : BOOLEAN, data : [Data(a) -> Value]] : a \in Address}

\* A level, a set and a way have room side by side in a word, and the set in
\* its mask.  (CLIDR has seven levels, and is read as if it had eight.)
ASSUME CachesAssumption ==
  /\ L \in Nat /\ WIDTH \in Nat /\ L < WIDTH /\ FLD_MAX_IDX \in Nat
  /\ Geometry \in Seq([sets : Nat \ {0}, ways : Nat \ {0}]) /\ Len(Geometry) \in 1 .. 8
  /\ 2 * Len(Geometry) <= 2^L
  /\ \A l \in Level :
       /\ Geometry[l].sets <= FLD_MAX_IDX + 1
       /\ \E s, w \in 0 .. WIDTH :
            L + s + w <= WIDTH /\ Geometry[l].sets <= 2^s /\ Geometry[l].ways <= 2^w
  /\ Buffers \subseteq Byte \X Byte /\ Stored \subseteq Byte
  /\ none \notin Line

\* What the provers do not know of powers.
ASSUME PowersOfTwo == 2^0 = 1 /\ \A k \in 0 .. WIDTH - 1 : 2^(k + 1) = 2 * 2^k

Slot ==
  UNION {{<<l, s, w>> : s \in 0 .. Geometry[l].sets - 1, w \in 0 .. Geometry[l].ways - 1} :
           l \in Level}

VARIABLES
  cache,    \* what is in each slot: none, or an address, whether it is dirty, and data
  memory,
  latest,   \* what was stored last in each byte and not given up since
  stores,
  done      \* the last call, and what it should have covered

cache_vars == <<cache, memory, latest, stores, done>>

-----------------------------------------------------------------------------
(* The hardware.                                                           *)

set_of(l, a) == (a \div 2^L) % Geometry[l].sets
ways(l, a) == {<<l, set_of(l, a), w>> : w \in 0 .. Geometry[l].ways - 1}
holding(c, l, a) == {x \in ways(l, a) : c[x] # none /\ c[x].adr = a}
free(c, l, a) == {x \in ways(l, a) : c[x] = none}

entry_of(a, dirty, data) == [adr |-> a, dirty |-> dirty, data |-> data]
filled(h, x, entry) == [h EXCEPT !.cache[x] = entry]

nearest(S) == CHOOSE k \in S : \A j \in S : k <= j
one(S) == CHOOSE x \in S : TRUE

\* What level l and those behind it have of line a.
fetched(h, l, a) ==
  LET levels == {k \in Level : k >= l /\ holding(h.cache, k, a) # {}}
  IN IF levels = {} THEN [b \in Data(a) |-> h.memory[b]]
     ELSE h.cache[one(holding(h.cache, nearest(levels), a))].data

\* A dirty line goes to the nearest level that has the line or room for it.
place(c, l, a) == IF holding(c, l, a) # {} THEN holding(c, l, a) ELSE free(c, l, a)
written(h, l, a, data) ==
  LET levels == {k \in Level : k >= l /\ place(h.cache, k, a) # {}}
  IN IF levels = {}
     THEN [h EXCEPT !.memory = [b \in Byte |-> IF b \in Data(a) THEN data[b] ELSE @[b]]]
     ELSE filled(h, one(place(h.cache, nearest(levels), a)), entry_of(a, TRUE, data))

cleaned(h, x) ==
  IF h.cache[x] = none \/ ~h.cache[x].dirty THEN h
  ELSE LET a == h.cache[x].adr
           data == h.cache[x].data
       IN written(filled(h, x, entry_of(a, FALSE, data)), x[1] + 1, a, data)
invalidated(h, x) == filled(h, x, none)

\* The three operations on a slot.
op(h, x, what) ==
  CASE what = "clean" -> cleaned(h, x)
    [] what = "invalidate" -> invalidated(h, x)
    [] what = "clean invalidate" -> invalidated(cleaned(h, x), x)

\* One step after the other, for each of a sequence.
in_turn(h, s, step(_, _)) ==
  LET after[k \in 0 .. Len(s)] == IF k = 0 THEN h ELSE step(after[k-1], s[k])
  IN after[Len(s)]

\* And on an address, down to memory.
op_level(h, l, a, what) ==
  IF holding(h.cache, l, a) = {} THEN h ELSE op(h, one(holding(h.cache, l, a)), what)
op_address(h, a, what) == in_turn(h, [l \in Level |-> l], LAMBDA g, l : op_level(g, l, a, what))

hardware == [cache |-> cache, memory |-> memory]
becomes(h) == cache' = h.cache /\ memory' = h.memory

-----------------------------------------------------------------------------
(* By set and way.  A line is named by a word: the level in the low bits,  *)
(* the set above the length of a line, the way at the top.                 *)

log_2_n_round_up(n) == CHOOSE k \in 0 .. WIDTH : 2^k >= n /\ (k > 0 => 2^(k-1) < n)

setway_word(l, set, way) ==
  (l - 1) * 2 + set * 2^L + way * 2^(WIDTH - log_2_n_round_up(Geometry[l].ways))

\* What the processor takes it for.
slot_of(v) ==
  LET l == ((v % 2^L) \div 2) + 1
  IN <<l, (v \div 2^L) % 2^log_2_n_round_up(Geometry[l].sets),
       v \div 2^(WIDTH - log_2_n_round_up(Geometry[l].ways))>>

\* The words of each level, the ways and in each the sets counted down.
level_words == [l \in Level |->
  LET sets == Geometry[l].sets
      num == Geometry[l].ways
  IN [k \in 1 .. num * sets |->
        setway_word(l, sets - 1 - ((k - 1) % sets), num - 1 - ((k - 1) \div sets))]]

setway(h, l, words, what) ==
  IF l \in Level THEN in_turn(h, words[l], LAMBDA g, v : op(g, slot_of(v), what)) ELSE h

each_level(h, levels, words, what) == in_turn(h, levels, LAMBDA g, l : setway(g, l, words, what))

\* The write for a line.  The macro named COP_DCACHE_INVALIDATE_LINE has the
\* encoding c7, c10, 2, which cleans the line and leaves it where it is.
line_op(clean_it) == IF clean_it THEN "clean invalidate" ELSE "clean"

\* Mutant: from the last level up.
mem_icache_invalidate_up(h, clean_it) ==
  each_level(h, [k \in 1 .. 8 |-> 9 - k], level_words, line_op(clean_it))

\* Each level of which CLIDR says that it has data.
mem_icache_invalidate(h, clean_it) ==
  each_level(h, [k \in 1 .. 8 |-> k], level_words, line_op(clean_it))

\* In cp15.S the sets are counted down, as far as a mask, and in each the ways.
masked_words == [l \in Level |->
  LET sets == ((Geometry[l].sets - 1) % (FLD_MAX_IDX + 1)) + 1
      num == Geometry[l].ways
  IN [k \in 1 .. sets * num |->
        setway_word(l, sets - 1 - ((k - 1) \div num), num - 1 - ((k - 1) % num))]]

\* As far as the level of coherency, unless the flag the code tests, which the
\* caller left and no instruction before sets, says zero.
by_levels(h, what, zero) ==
  IF zero THEN h ELSE each_level(h, [l \in Level |-> l], masked_words, what)

-----------------------------------------------------------------------------
(* By address.  Addresses are compared as signed numbers.                  *)

signed(a) == IF a >= 2^(WIDTH - 1) THEN a - 2^WIDTH ELSE a
sum(a, n) == (a + n) % 2^WIDTH

\* The lines a loop visits from one on: it goes to the next line until that is
\* not below the other, and makes at least so many turns.
visited(from, to, least) ==
  LET turns == nearest({k \in least .. 2^(WIDTH - L) : signed(sum(from, k * 2^L)) >= signed(to)})
  IN [k \in 1 .. turns |-> sum(from, (k - 1) * 2^L)]

op_lines(h, lines, what) == in_turn(h, lines, LAMBDA g, a : op_address(g, a, what))

\* The line of an address in the middle of it.
unaligned(a) == IF a % 2^L # 0 THEN <<line(a)>> ELSE <<>>

\* CP15DCacheCleanBuff and CP15DCacheCleanFlushBuff: the line of an unaligned
\* end, then the lines before it.
clean_buffer(h, a, n, what) ==
  op_lines(op_lines(h, unaligned(sum(a, n)), what), visited(line(a), line(sum(a, n)), 1), what)

\* Mutant: the lines at the ends are invalidated like the others.
flush_buffer_ends(h, a, n) ==
  op_lines(op_lines(h, unaligned(sum(a, n)), "invalidate"),
           visited(line(a), line(sum(a, n)), 0), "invalidate")

\* CP15DCacheFlushBuff: the lines at unaligned ends, which have other data too,
\* are cleaned as well.
flush_buffer(h, a, n) ==
  LET ends == unaligned(a) \o unaligned(sum(a, n))
      from == IF a % 2^L # 0 THEN sum(line(a), 2^L) ELSE a
  IN op_lines(op_lines(h, ends, "clean invalidate"),
              visited(from, line(sum(a, n)), 0), "invalidate")

-----------------------------------------------------------------------------
(* The program.                                                            *)

CacheInit ==
  /\ cache = [x \in Slot |-> none]
  /\ memory = [b \in Byte |-> "old"] /\ latest = memory
  /\ stores = 0 /\ done = [call |-> "none"]

\* A store goes to the first level, which drops another line if it must.
store(b) ==
  /\ stores < MaxStores /\ stores' = stores + 1
  /\ LET a == line(b)
         in == holding(cache, 1, a)
     IN \E x \in IF in # {} THEN in ELSE ways(1, a) :
          LET h == IF in # {} THEN hardware ELSE op(hardware, x, "clean invalidate")
          IN becomes(filled(h, x, entry_of(a, TRUE, [fetched(h, 1, a) EXCEPT ![b] = "new"])))
  /\ latest' = [latest EXCEPT ![b] = "new"]
  /\ done' = [call |-> "none"]

\* Of the bytes in S, what a call throws away is not wanted any more.
given_up(S) ==
  LET after == [cache |-> cache', memory |-> memory']
  IN latest' = [b \in Byte |-> IF b \in S THEN fetched(after, 1, line(b))[b] ELSE latest[b]]

\* Without data_writeback nothing is removed, whatever the name says: what this
\* call is held to is what a clean is for.
mem_cache_invalidate(data_writeback) ==
  /\ becomes(mem_icache_invalidate(hardware, data_writeback))
  /\ done' = [call |-> "mem_cache_invalidate", cached |-> ~data_writeback, bytes |-> Byte,
              sound |-> TRUE]
  /\ UNCHANGED <<latest, stores>>

\* CP15DCacheClean, CP15DCacheCleanFlush (also in CP15DCacheDisable) and
\* CP15DCacheFlush.
CP15DCache(what, zero) ==
  /\ becomes(by_levels(hardware, what, zero))
  /\ given_up(IF what = "invalidate" THEN Byte ELSE {})
  /\ done' = [call |-> what, cached |-> what = "clean", bytes |-> Byte, sound |-> ~zero]
  /\ UNCHANGED stores

covered(a, n) == {sum(a, k) : k \in 0 .. n - 1}

\* The comparison is wrong for a buffer that reaches the last line below the
\* middle of the address space: lines are left out, or far too many are taken.
Buffer == {b \in Buffers : signed(b[1]) + b[2] <= 2^(WIDTH - 1) - 2^L}

CP15DCacheCleanBuff(a, n, what) ==
  /\ becomes(clean_buffer(hardware, a, n, what))
  /\ done' = [call |-> what, cached |-> what = "clean", bytes |-> covered(a, n), sound |-> TRUE]
  /\ UNCHANGED <<latest, stores>>

CP15DCacheFlushBuff(a, n) ==
  /\ becomes(flush_buffer(hardware, a, n))
  /\ given_up(covered(a, n))
  /\ done' = [call |-> "invalidate", cached |-> FALSE, bytes |-> covered(a, n), sound |-> TRUE]
  /\ UNCHANGED stores

CacheNext ==
  \/ \E b \in Stored : store(b)
  \/ \E w \in BOOLEAN : mem_cache_invalidate(w)
  \/ \E what \in {"clean", "invalidate", "clean invalidate"}, zero \in BOOLEAN :
       CP15DCache(what, zero)
  \/ \E b \in Buffer, what \in {"clean", "clean invalidate"} : CP15DCacheCleanBuff(b[1], b[2], what)
  \/ \E b \in Buffer : CP15DCacheFlushBuff(b[1], b[2])

CacheSpec == CacheInit /\ [][CacheNext]_cache_vars

-----------------------------------------------------------------------------
(* Properties.                                                             *)

\* Nothing that was stored is lost, except what a call was told to throw away.
NothingLost == \A a \in Address : \A b \in Data(a) : fetched(hardware, 1, a)[b] = latest[b]

\* After a call, memory has all that was stored in the bytes it is for, and no
\* cache has them if it was to remove them: a device sees what the processor
\* stored, and the processor what a device will store.
CallCovers ==
  done.call # "none" /\ done.sound =>
    /\ \A b \in done.bytes : memory[b] = latest[b]
    /\ ~done.cached =>
         \A x \in Slot : cache[x] # none => Data(cache[x].adr) \intersect done.bytes = {}

\* Cache maintenance loses nothing that was stored, and after it memory and
\* caches agree about what it was for (cpu_mem.c:55-124, cp15.S:63-288), where
\* mem_cache_invalidate without write-back counts as the clean it is.
CachesMaintained == NothingLost /\ CallCovers
=============================================================================
