------------------------------- MODULE Random -------------------------------
(***************************************************************************)
(* The C library's random numbers (user/lib/libc/stdlib/random.c): additive   *)
(* feedback generators over state arrays that a program makes with initstate  *)
(* and switches between with setstate.  Word 0 of an array keeps its type and  *)
(* the position of its rear pointer while another array is in use.           *)
(*                                                                         *)
(* A pointer into an array is <<array, index>>, index 0 being state[0].  Words *)
(* are W values wide; the loop of srandom takes a step per iteration.         *)
(***************************************************************************)
EXTENDS Integers, Sequences

CONSTANTS
    MAX_TYPES,          \* types 0 .. MAX_TYPES - 1; type 0 is linear congruential
    degrees, seps,      \* per type: length of the table, distance of the pointers
    DefaultType,        \* the type of randtbl
    StateArray,         \* the arrays of the program
    randtbl,            \* the array at the start
    W,                  \* values of a word (2^32)
    MaxRandCalls        \* calls in a run (bound)

RandType == 0 .. (MAX_TYPES - 1)
Arrays == StateArray \union {randtbl}
Word == 0 .. (W - 1)

\* The separation is less than the degree, so that both pointers never wrap in
\* the same call.
ASSUME RandomAssumption ==
    /\ MAX_TYPES \in Nat \ {0} /\ W \in Nat \ {0} /\ MaxRandCalls \in Nat
    /\ degrees \in [RandType -> Nat] /\ seps \in [RandType -> Nat]
    /\ DefaultType \in RandType \ {0} /\ randtbl \notin StateArray
    /\ degrees[0] = 0 /\ \A t \in RandType \ {0} : seps[t] \in 1 .. (degrees[t] - 1)

\* BREAK_0, BREAK_1, ... in words: the first word and the table.
Break(t) == IF t = 0 THEN 2 ELSE degrees[t] + 1

MaxWords == CHOOSE m \in {Break(t) : t \in RandType} : \A t \in RandType : Break(t) <= m
Cell == 0 .. (MaxWords - 2)

VARIABLES
    table,              \* array -> index -> word
    word0,              \* array -> the word before state[0]: type and rear pointer
    state,              \* the array in use
    rand_type,
    fptr, rptr, end_ptr,
    warm,               \* srandom's second loop: iterations left; is it in initstate?
    stream,             \* history: what each array's generator should go on from
    disturbed,          \* history: arrays whose pointers were moved back
    randcalls

randVars == <<table, word0, state, rand_type, fptr, rptr, end_ptr, warm, stream, disturbed, randcalls>>

rand_deg == degrees[rand_type]
rand_sep == seps[rand_type]
NotWarming == [left |-> 0, init |-> FALSE]

lcg(x) == ((1103515245 % W) * x + (12345 % W)) % W

\* The generator itself: each number is the sum of those rand_deg and rand_sep
\* calls ago.
Recurrence(s, t) ==
    IF t = 0 THEN <<lcg(s[1])>>
    ELSE Append(Tail(s), (s[1] + s[degrees[t] - seps[t] + 1]) % W)

\* What is in a table, from the cell of the front pointer on.
Window(tab, t, rear) ==
    IF t = 0 THEN <<tab[0]>>
    ELSE [k \in 1 .. degrees[t] |-> tab[(rear + seps[t] + k - 1) % degrees[t]]]

RandInit ==
    /\ table = [a \in Arrays |-> [i \in Cell |-> i % W]]
    /\ word0 = [a \in Arrays |-> IF a = randtbl THEN DefaultType ELSE 0]
    /\ state = randtbl /\ rand_type = DefaultType
    /\ fptr = <<randtbl, seps[DefaultType]>> /\ rptr = <<randtbl, 0>>
    /\ end_ptr = <<randtbl, degrees[DefaultType]>>
    /\ warm = NotWarming
    /\ stream = [a \in Arrays |-> IF a = randtbl THEN Window(table[a], DefaultType, 0) ELSE <<>>]
    /\ disturbed = {} /\ randcalls = 0

RandCall == warm.left = 0 /\ randcalls < MaxRandCalls /\ randcalls' = randcalls + 1

-----------------------------------------------------------------------------
\* MAX_TYPES * (rptr - state) + rand_type.
Packed == IF rand_type = 0 THEN 0 ELSE MAX_TYPES * rptr[2] + rand_type

\* Both pointers move on; the rear one is not tested if the front one wraps.
Advance ==
    /\ fptr' = <<state, IF fptr[2] + 1 >= end_ptr[2] THEN 0 ELSE fptr[2] + 1>>
    /\ rptr' = <<state, IF fptr[2] + 1 < end_ptr[2] /\ rptr[2] + 1 >= end_ptr[2] THEN 0 ELSE rptr[2] + 1>>

random_unlocked ==
    /\ \/ /\ rand_type = 0
          /\ table' = [table EXCEPT ![state][0] = lcg(@)]
          /\ UNCHANGED <<fptr, rptr>>
       \/ /\ rand_type # 0
          /\ table' = [table EXCEPT ![state][fptr[2]] = (@ + table[state][rptr[2]]) % W]
          /\ Advance
    /\ stream' = [stream EXCEPT ![state] = Recurrence(@, rand_type)]
    /\ UNCHANGED <<state, rand_type, end_ptr, disturbed>>

random == RandCall /\ random_unlocked /\ UNCHANGED <<word0, warm>>

\* The linear congruential start of a table.
Seeded(x, t) ==
    LET fill[i \in Cell] == IF i = 0 THEN x ELSE lcg(fill[i - 1]) IN fill

\* srandom_unlocked up to its second loop, for the array and type just set.
srandom_unlocked(x, a, t, init) ==
    /\ table' = [table EXCEPT ![a] = IF t = 0 THEN [@ EXCEPT ![0] = x]
                                     ELSE [i \in Cell |-> IF i < degrees[t] THEN Seeded(x, t)[i] ELSE @[i]]]
    /\ IF t = 0 THEN UNCHANGED <<fptr, rptr>> ELSE fptr' = <<a, seps[t]>> /\ rptr' = <<a, 0>>
    /\ warm' = IF t = 0 THEN NotWarming ELSE [left |-> 10 * degrees[t], init |-> init]
    /\ stream' = [stream EXCEPT ![a] = Window(table'[a], t, 0)]
    /\ disturbed' = disturbed \ {a}

srandom(x) ==
    /\ RandCall /\ srandom_unlocked(x, state, rand_type, FALSE)
    /\ UNCHANGED <<word0, state, rand_type, end_ptr>>

\* One iteration of the second loop; after the last one initstate notes where
\* the rear pointer is.
WarmUp ==
    /\ warm.left > 0 /\ random_unlocked
    /\ warm' = [warm EXCEPT !.left = @ - 1]
    /\ word0' = IF warm.left = 1 /\ warm.init
                THEN [word0 EXCEPT ![state] = MAX_TYPES * rptr'[2] + rand_type] ELSE word0
    /\ UNCHANGED randcalls

\* The best type for n words of state.
TypeFor(n) == CHOOSE t \in RandType : Break(t) <= n /\ \A u \in RandType : Break(u) <= n => u <= t

\* initstate and setstate note where the array in use stands.
Save == [word0 EXCEPT ![state] = Packed]

initstate(seed, a, n) ==
    /\ RandCall
    /\ \/ /\ n < Break(0) /\ word0' = Save
          /\ UNCHANGED <<table, state, rand_type, fptr, rptr, end_ptr, warm, stream, disturbed>>
       \/ /\ n >= Break(0)
          /\ rand_type' = TypeFor(n) /\ state' = a
          /\ end_ptr' = <<a, degrees[TypeFor(n)]>>
          /\ srandom_unlocked(seed, a, TypeFor(n), TRUE)
          /\ word0' = IF TypeFor(n) = 0 THEN [Save EXCEPT ![a] = 0] ELSE Save

\* The type and the position are read before the array in use is noted: with
\* the same array they are those of the last time it was left.
setstate(a) ==
    LET type == word0[a] % MAX_TYPES
        rear == word0[a] \div MAX_TYPES
    IN /\ RandCall /\ stream[a] # <<>>
       /\ word0' = Save
       /\ rand_type' = type /\ state' = a /\ end_ptr' = <<a, degrees[type]>>
       /\ IF type = 0 THEN UNCHANGED <<fptr, rptr>>
          ELSE rptr' = <<a, rear>> /\ fptr' = <<a, (rear + seps[type]) % degrees[type]>>
       /\ disturbed' = IF a = state /\ type # 0 /\ rear # rptr[2] THEN disturbed \union {a} ELSE disturbed
       /\ UNCHANGED <<table, warm, stream>>

RandNext ==
    \/ random \/ WarmUp
    \/ \E x \in Word : srandom(x) \/ \E a \in StateArray, n \in 1 .. MaxWords : initstate(x, a, n)
    \/ \E a \in Arrays : setstate(a)

RandSpec == RandInit /\ [][RandNext]_randVars

-----------------------------------------------------------------------------
(* Properties *)

\* "These two pointers are always rand_sep places aparts, as they cycle
\* cyclically through the state information", and inside it.
PointersApart ==
    rand_type # 0 =>
        /\ rptr[1] = state /\ rptr[2] \in 0 .. (rand_deg - 1)
        /\ fptr = <<state, (rptr[2] + rand_sep) % rand_deg>>
        /\ end_ptr = <<state, rand_deg>>

\* Switching between arrays changes no stream: each array, in use or not, goes
\* on with what its own recurrence says, unless setstate was called with the
\* array in use.
StreamsKept ==
    \A a \in Arrays \ disturbed : stream[a] # <<>> =>
        \/ a = state /\ stream[a] = Window(table[a], rand_type, rptr[2])
        \/ /\ a # state
           /\ stream[a] = Window(table[a], word0[a] % MAX_TYPES, word0[a] \div MAX_TYPES)

\* random, srandom, initstate and setstate implement independent additive
\* feedback generators (random.c:195-453).
RandomSound == PointersApart /\ StreamsKept
=============================================================================
