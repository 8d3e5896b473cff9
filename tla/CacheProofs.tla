----------------------------- MODULE CacheProofs ------------------------------
(***************************************************************************)
(* In the programs without a loop inside an if statement, and without a     *)
(* call inside an expression that changes a variable, the compiled function *)
(* never uses a temporary for a variable whose value it does not hold any   *)
(* more: the invariant of module CacheInvariant holds, for all programs.    *)
(***************************************************************************)
EXTENDS CacheInvariant, Induction

-----------------------------------------------------------------------------
(* Sequences of instructions, and of a single one.                          *)
Instructions == Seq(IRInstruction)

(* Two sequences of instructions in a row.                                  *)
LEMMA InstructionsInARow ==
  ASSUME NEW c \in Instructions, NEW d \in Instructions
  PROVE  /\ c \o d \in Instructions /\ Len(c \o d) = Len(c) + Len(d)
         /\ Len(c) \in Nat /\ Len(d) \in Nat /\ DOMAIN c = 1..Len(c) /\ DOMAIN d = 1..Len(d)
         /\ DOMAIN (c \o d) = 1..(Len(c) + Len(d))
         /\ \A i \in DOMAIN c : c[i] \in IRInstruction
         /\ \A i \in DOMAIN c : (c \o d)[i] = c[i]
         /\ \A i \in DOMAIN d : (c \o d)[Len(c) + i] = d[i]
         /\ \A i \in 1..(Len(c) + Len(d)) : i \in DOMAIN c \/ i - Len(c) \in DOMAIN d
<1> HIDE DEF IRInstruction
<1> QED BY ElementsInARow DEF Instructions

(* The sequence of a single instruction.                                    *)
LEMMA SingleInstruction ==
  ASSUME NEW x \in IRInstruction, NEW d, d = <<x>>
  PROVE  d \in Instructions /\ DOMAIN d = {1} /\ Len(d) = 1 /\ d[1] = x
<1> HIDE DEF IRInstruction
<1> QED BY DEF Instructions

-----------------------------------------------------------------------------
(* What holds before an instruction.                                        *)

(* Instructions that come later make no difference.                         *)
LEMMA HoldsStays ==
  ASSUME NEW c \in Instructions, NEW d \in Instructions, NEW known,
         NEW i \in 1..(Len(c) + 1), NEW v, NEW t
  PROVE  Holds(known, c \o d, i, v, t) <=> Holds(known, c, i, v, t)
<1>1. \A k \in 1..(i - 1) : (c \o d)[k] = c[k]
  BY InstructionsInARow
<1>2. \A j \in 0..(i - 1) : j = 0 \/ j \in 1..(i - 1)
  OBVIOUS
<1>3. \A j \in 0..(i - 1) : \A k \in (j + 1)..(i - 1) : k \in 1..(i - 1)
  OBVIOUS
<1> QED BY <1>1, <1>2, <1>3 DEF Holds

(* What held still holds if nothing kills it.                               *)
LEMMA HoldsAfter ==
  ASSUME NEW c \in Instructions, NEW d \in Instructions, NEW known, NEW v, NEW t,
         Holds(known, c, Len(c) + 1, v, t), \A k \in DOMAIN d : ~Kills(d[k], v, t)
  PROVE  Holds(known, c \o d, Len(c \o d) + 1, v, t)
<1>1. PICK e : e = c \o d
  OBVIOUS
<1>2. /\ Len(e) = Len(c) + Len(d) /\ \A i \in DOMAIN c : e[i] = c[i]
      /\ \A i \in DOMAIN d : e[Len(c) + i] = d[i]
      /\ \A i \in 1..(Len(c) + Len(d)) : i \in DOMAIN c \/ i - Len(c) \in DOMAIN d
  BY <1>1, InstructionsInARow
<1>3. Len(c) \in Nat /\ Len(d) \in Nat /\ DOMAIN c = 1..Len(c)
  OBVIOUS
<1>4. PICK j \in 0..Len(c) :
        /\ IF j = 0 THEN <<v, t>> \in known ELSE Sets(c[j], v, t)
        /\ \A k \in (j + 1)..Len(c) : ~Kills(c[k], v, t)
  BY <1>3 DEF Holds
<1>5. j \in 0..(Len(e) + 1 - 1)
  BY <1>2, <1>3
<1>6. IF j = 0 THEN <<v, t>> \in known ELSE Sets(e[j], v, t)
  BY <1>2, <1>3, <1>4
<1>7. ASSUME NEW k \in (j + 1)..(Len(e) + 1 - 1) PROVE ~Kills(e[k], v, t)
  <2>1. CASE k <= Len(c)
    BY <1>2, <1>3, <1>4, <2>1
  <2>2. CASE k > Len(c)
    <3>1. k - Len(c) \in DOMAIN d /\ Len(c) + (k - Len(c)) = k
      BY <1>2, <1>3, <2>2
    <3>2. e[k] = d[k - Len(c)]
      BY <1>2, <3>1
    <3> QED BY <3>1, <3>2
  <2> QED BY <1>3, <2>1, <2>2
<1> QED BY <1>1, <1>5, <1>6, <1>7 DEF Holds

(* A variable that has just been loaded.                                    *)
LEMMA HoldsLoaded ==
  ASSUME NEW c \in Instructions, NEW d \in Instructions, Len(d) = 1, NEW known, NEW v, NEW t,
         Sets(d[1], v, t)
  PROVE  Holds(known, c \o d, Len(c \o d) + 1, v, t)
<1>1. PICK e : e = c \o d
  OBVIOUS
<1>2. Len(e) = Len(c) + 1 /\ e[Len(c) + 1] = d[1] /\ Len(c) \in Nat
  <2>1. /\ Len(c \o d) = Len(c) + Len(d) /\ Len(c) \in Nat /\ DOMAIN d = 1..Len(d)
        /\ \A i \in DOMAIN d : (c \o d)[Len(c) + i] = d[i]
    BY InstructionsInARow
  <2> QED BY <1>1, <2>1
<1>3. Len(e) \in 0..(Len(e) + 1 - 1) /\ Len(e) # 0 /\ (Len(e) + 1)..(Len(e) + 1 - 1) = {}
  BY <1>2
<1> QED BY <1>1, <1>2, <1>3 DEF Holds

-----------------------------------------------------------------------------
(* The creator of instructions.                                             *)
Creator == [code : Instructions, cache : Cache, count : Nat, value : Nat]

(* Its cache is true, if at the beginning what is known was so.             *)
Creating(known, n) ==
  {g \in Creator :
     /\ n <= g.count
     /\ AreSound(known, g.code, g.count)
     /\ IsTrueAtEnd(known, g.code, g.cache, g.count)
     /\ \A i \in DOMAIN g.code : g.code[i].op \notin Jumps}

(* What it has made of g.                                                   *)
LEMMA CreatorParts ==
  ASSUME NEW g \in Creator
  PROVE  /\ g.code \in Instructions /\ g.cache \in Cache /\ g.count \in Nat /\ g.value \in Nat
         /\ DOMAIN g.cache \subseteq Variables /\ \A v \in DOMAIN g.cache : g.cache[v] \in Nat
         /\ Len(g.code) \in Nat /\ DOMAIN g.code = 1..Len(g.code)
BY DEF Creator, Cache

(* More temporaries do no harm.                                             *)
LEMMA SoundWithMore ==
  ASSUME NEW c, NEW known, NEW m \in Nat, NEW n \in Nat, m <= n, AreSound(known, c, m)
  PROVE  AreSound(known, c, n)
<1>1. \A t : t \in 0..(m - 1) => t \in 0..(n - 1)
  OBVIOUS
<1> QED BY <1>1 DEF AreSound

(* The same for what the cache says.                                        *)
LEMMA TrueWithMore ==
  ASSUME NEW c, NEW cache, NEW known, NEW m \in Nat, NEW n \in Nat, m <= n,
         IsTrueAtEnd(known, c, cache, m)
  PROVE  IsTrueAtEnd(known, c, cache, n)
<1>1. \A t : t \in 0..(m - 1) => t \in 0..(n - 1)
  OBVIOUS
<1> QED BY <1>1 DEF IsTrueAtEnd

(* Instructions are appended that are sound where they are.                 *)
LEMMA SoundInARow ==
  ASSUME NEW c \in Instructions, NEW d \in Instructions, NEW known, NEW n \in Nat,
         AreSound(known, c, n),
         \A i \in DOMAIN d :
           /\ d[i].op \in Marks =>
                /\ d[i].variable \in Variables /\ d[i].from[1] \in 0..(n - 1) /\ i = 1
                /\ Holds(known, c, Len(c) + 1, d[i].variable, d[i].from[1])
           /\ d[i].op = "load" => d[i].variable \in Variables /\ d[i].to[1] \in 0..(n - 1)
  PROVE  AreSound(known, c \o d, n)
<1>1. PICK e : e = c \o d
  OBVIOUS
<1>2. /\ DOMAIN e = 1..(Len(c) + Len(d)) /\ \A i \in DOMAIN c : e[i] = c[i]
      /\ \A i \in DOMAIN d : e[Len(c) + i] = d[i]
      /\ \A i \in 1..(Len(c) + Len(d)) : i \in DOMAIN c \/ i - Len(c) \in DOMAIN d
  BY <1>1, InstructionsInARow
<1>3. Len(c) \in Nat /\ DOMAIN c = 1..Len(c)
  OBVIOUS
<1>4. ASSUME NEW i \in DOMAIN e
      PROVE  /\ e[i].op \in Marks =>
                  /\ e[i].variable \in Variables /\ e[i].from[1] \in 0..(n - 1)
                  /\ Holds(known, e, i, e[i].variable, e[i].from[1])
             /\ e[i].op = "load" => e[i].variable \in Variables /\ e[i].to[1] \in 0..(n - 1)
  <2>1. CASE i \in DOMAIN c
    <3>1. e[i] = c[i] /\ i \in 1..(Len(c) + 1)
      BY <1>2, <1>3, <2>1
    <3>2. Holds(known, e, i, c[i].variable, c[i].from[1]) <=> Holds(known, c, i, c[i].variable, c[i].from[1])
      BY <1>1, <3>1, HoldsStays
    <3> QED BY <2>1, <3>1, <3>2 DEF AreSound
  <2>2. CASE i - Len(c) \in DOMAIN d
    <3>1. PICK k \in DOMAIN d : k = i - Len(c)
      BY <2>2
    <3>2. i = Len(c) + k /\ e[i] = d[k]
      <4>1. i \in Nat /\ Len(c) + (i - Len(c)) = i
        BY <1>2, <1>3
      <4> QED BY <1>2, <3>1, <4>1
    <3>3. CASE e[i].op \in Marks
      <4>1. i = Len(c) + 1 /\ i \in 1..(Len(c) + 1)
        BY <1>3, <3>2, <3>3
      <4>2. Holds(known, e, i, e[i].variable, e[i].from[1])
        BY <1>1, <3>2, <3>3, <4>1, HoldsStays
      <4> QED BY <3>2, <3>3, <4>2 DEF Marks
    <3> QED BY <3>2, <3>3
  <2> QED BY <1>2, <2>1, <2>2
<1> QED BY <1>1, <1>4 DEF AreSound

(* What remains true when g goes on with more instructions and temporaries. *)
LEMMA GoesOn ==
  ASSUME NEW known, NEW n, NEW g \in Creating(known, n),
         NEW d \in Instructions, NEW h \in Creator,
         h.code = g.code \o d, g.count <= h.count, n \in Nat,
         \A i \in DOMAIN d : d[i].op \notin Jumps,
         \A i \in DOMAIN d :
           /\ d[i].op \in Marks =>
                /\ d[i].variable \in Variables /\ d[i].from[1] \in 0..(h.count - 1) /\ i = 1
                /\ Holds(known, g.code, Len(g.code) + 1, d[i].variable, d[i].from[1])
           /\ d[i].op = "load" => d[i].variable \in Variables /\ d[i].to[1] \in 0..(h.count - 1),
         IsTrueAtEnd(known, h.code, h.cache, h.count)
  PROVE  h \in Creating(known, n)
<1>1. g \in Creator /\ h \in Creator /\ n <= g.count /\ AreSound(known, g.code, g.count)
  BY DEF Creating
<1>2. g.code \in Instructions /\ g.count \in Nat /\ h.count \in Nat
  BY <1>1, CreatorParts
<1>3. AreSound(known, h.code, h.count)
  <2>1. AreSound(known, g.code, h.count)
    BY <1>1, <1>2, SoundWithMore
  <2> QED BY <1>2, <2>1, SoundInARow
<1>4. \A i \in DOMAIN h.code : h.code[i].op \notin Jumps
  <2>1. \A i \in DOMAIN g.code : g.code[i].op \notin Jumps
    BY DEF Creating
  <2>2. PICK c, e : c = g.code /\ e = h.code
    OBVIOUS
  <2>3. /\ \A i \in DOMAIN c : e[i] = c[i]
        /\ \A i \in DOMAIN d : e[Len(c) + i] = d[i]
        /\ DOMAIN e = 1..(Len(c) + Len(d)) /\ Len(c) \in Nat
        /\ \A i \in 1..(Len(c) + Len(d)) : i \in DOMAIN c \/ i - Len(c) \in DOMAIN d
    <3>1. c \in Instructions /\ e = c \o d
      BY <1>2, <2>2
    <3> HIDE <2>2
    <3> QED BY <3>1, InstructionsInARow
  <2>4. \A i \in DOMAIN e : Len(c) + (i - Len(c)) = i
    BY <2>3
  <2> QED BY <2>1, <2>2, <2>3, <2>4
<1>5. n <= h.count
  BY <1>1, <1>2
<1> HIDE DEF Creator
<1> QED BY <1>1, <1>3, <1>4, <1>5 DEF Creating

(* The cache is still true after instructions that kill nothing.            *)
LEMMA CacheStaysTrue ==
  ASSUME NEW known, NEW n, NEW g \in Creating(known, n), NEW d \in Instructions,
         NEW m \in Nat, g.count <= m,
         \A i \in DOMAIN d : \A v \in DOMAIN g.cache : ~Kills(d[i], v, g.cache[v])
  PROVE  IsTrueAtEnd(known, g.code \o d, g.cache, m)
<1>1. g \in Creator /\ IsTrueAtEnd(known, g.code, g.cache, g.count)
  BY DEF Creating
<1>2. g.code \in Instructions /\ g.count \in Nat
  BY <1>1, CreatorParts
<1>3. IsTrueAtEnd(known, g.code, g.cache, m)
  BY <1>1, <1>2, TrueWithMore
<1>4. ASSUME NEW v \in DOMAIN g.cache
      PROVE  Holds(known, g.code \o d, Len(g.code \o d) + 1, v, g.cache[v])
  <2>1. Holds(known, g.code, Len(g.code) + 1, v, g.cache[v])
    BY <1>3 DEF IsTrueAtEnd
  <2>2. \A i \in DOMAIN d : ~Kills(d[i], v, g.cache[v])
    OBVIOUS
  <2> QED BY <1>2, <2>1, <2>2, HoldsAfter
<1> QED BY <1>3, <1>4 DEF IsTrueAtEnd

(* Instructions on temporaries only; a call is one if it changes nothing.   *)
IsQuiet(x) ==
  \/ x.op \in {"constant", "operate", "context", "context_of", "parameter", "result", "return"}
  \/ x.op \in Calling /\ Shared = {}

(* The next temporary is taken.                                             *)
LEMMA NextTemporaryIsTaken ==
  ASSUME NEW known, NEW n \in Nat, NEW g \in Creating(known, n)
  PROVE  /\ NextTemporary(g) \in Creating(known, n)
         /\ NextTemporary(g).value = g.count /\ NextTemporary(g).count = g.count + 1
         /\ NextTemporary(g).code = g.code /\ NextTemporary(g).cache = g.cache
<1>1. g \in Creator /\ n <= g.count /\ g.count \in Nat /\ g.code \in Instructions
  BY CreatorParts DEF Creating
<1>2. PICK h : h = NextTemporary(g)
  OBVIOUS
<1>3. /\ h \in Creator /\ h.value = g.count /\ h.count = g.count + 1
      /\ h.code = g.code /\ h.cache = g.cache
  <2>1. g.count + 1 \in Nat
    BY <1>1
  <2> QED BY <1>1, <1>2, <2>1 DEF NextTemporary, Creator
<1>4. g.count <= h.count /\ n <= h.count /\ h.count \in Nat
  BY <1>1, <1>3
<1>5. AreSound(known, h.code, h.count) /\ IsTrueAtEnd(known, h.code, h.cache, h.count)
  BY <1>1, <1>3, <1>4, SoundWithMore, TrueWithMore DEF Creating
<1>6. h \in Creating(known, n)
  BY <1>3, <1>4, <1>5 DEF Creating
<1> QED BY <1>2, <1>3, <1>6

(* Quiet instructions are emitted.                                          *)
LEMMA QuietIsEmitted ==
  ASSUME NEW known, NEW n \in Nat, NEW g \in Creating(known, n), NEW d \in Instructions,
         \A i \in DOMAIN d : IsQuiet(d[i])
  PROVE  /\ Emit(g, d) \in Creating(known, n)
         /\ Emit(g, d).value = g.value /\ Emit(g, d).count = g.count
         /\ Emit(g, d).cache = g.cache /\ Emit(g, d).code = g.code \o d
<1>1. g \in Creator /\ g.count \in Nat /\ g.code \in Instructions
  BY CreatorParts DEF Creating
<1>2. PICK h : h = Emit(g, d)
  OBVIOUS
<1>3. /\ h \in Creator /\ h.value = g.value /\ h.count = g.count
      /\ h.code = g.code \o d /\ h.cache = g.cache
  <2>1. g.code \o d \in Instructions
    BY <1>1, InstructionsInARow
  <2> QED BY <1>1, <1>2, <2>1 DEF Emit, Creator
<1>4. \A i \in DOMAIN d : d[i].op \notin Jumps \cup Marks \cup {"load"}
  BY DEF IsQuiet, Jumps, Marks, Calling
<1>5. \A i \in DOMAIN d : \A v, t : ~Kills(d[i], v, t)
  BY DEF IsQuiet, Kills, Calling
<1>6. IsTrueAtEnd(known, h.code, h.cache, h.count)
  BY <1>1, <1>3, <1>5, CacheStaysTrue
<1>7. \A i \in DOMAIN d : d[i].op \notin Jumps /\ d[i].op \notin Marks /\ d[i].op # "load"
  BY <1>4
<1>8. h \in Creating(known, n)
  <2>1. g.count <= h.count /\ h.code = g.code \o d /\ h \in Creator
    BY <1>1, <1>3
  <2> QED BY <1>6, <1>7, <2>1, GoesOn
<1> QED BY <1>2, <1>3, <1>8

(* A single instruction.                                                    *)
LEMMA InstructionParts ==
  ASSUME NEW o \in Ops, NEW v \in Operands,
         NEW fs \in Temporaries, NEW ts \in Temporaries,
         NEW x, x = Instruction(o, v, fs, ts), NEW d, d = <<x>>
  PROVE  /\ x \in IRInstruction /\ x.op = o /\ x.variable = v /\ x.from = fs /\ x.to = ts
         /\ d \in Instructions /\ DOMAIN d = {1} /\ Len(d) = 1 /\ d[1] = x
<1>1. x \in IRInstruction /\ x.op = o /\ x.variable = v /\ x.from = fs /\ x.to = ts
  BY DEF Instruction, IRInstruction
<1> QED BY <1>1, SingleInstruction

(* Sequences of no, one and two temporaries.                                *)
LEMMA TemporariesAre ==
  /\ <<>> \in Temporaries
  /\ \A t \in Nat : <<t>> \in Temporaries /\ \A u \in Nat : <<t, u>> \in Temporaries
BY DEF Temporaries

(* An instruction on temporaries, and one that sets the next one.           *)
QuietOps == {"constant", "operate", "context", "context_of", "parameter", "result", "return"}

(* An instruction on temporaries leaves the cache alone.                    *)
LEMMA PlainIsEmitted ==
  ASSUME NEW known, NEW n \in Nat, NEW g \in Creating(known, n),
         NEW o \in Ops, o \in QuietOps \/ (o \in Calling /\ Shared = {}),
         NEW fs \in Temporaries, NEW ts \in Temporaries, NEW h, h = Emit(g, <<Plain(o, fs, ts)>>)
  PROVE  /\ h \in Creating(known, n) /\ h.value = g.value /\ h.count = g.count
         /\ h.cache = g.cache
<1>1. PICK x, d : x = Plain(o, fs, ts) /\ d = <<x>>
  OBVIOUS
<1>2. x.op = o /\ d \in Instructions /\ DOMAIN d = {1} /\ d[1] = x
  <2>1. x = Instruction(o, CALL, fs, ts) /\ CALL \in Operands
    BY <1>1 DEF Plain, Operands
  <2> QED BY <1>1, <2>1, InstructionParts
<1>3. \A i \in DOMAIN d : IsQuiet(d[i])
  BY <1>2 DEF IsQuiet, QuietOps
<1>4. h = Emit(g, d)
  BY <1>1
<1> QED BY <1>2, <1>3, <1>4, QuietIsEmitted

(* So does one that sets the next temporary.                                *)
LEMMA PlainIsEmittedInto ==
  ASSUME NEW known, NEW n \in Nat, NEW g \in Creating(known, n),
         NEW o \in QuietOps, NEW fs \in Temporaries, NEW h, h = EmitInto(g, o, CALL, fs)
  PROVE  /\ h \in Creating(known, n) /\ h.value = g.count /\ h.count = g.count + 1
         /\ h.cache = g.cache
<1>1. PICK k : k = NextTemporary(g)
  OBVIOUS
<1>2. k \in Creating(known, n) /\ k.value = g.count /\ k.count = g.count + 1 /\ k.cache = g.cache
  BY <1>1, NextTemporaryIsTaken
<1>3. g.count \in Nat
  BY CreatorParts DEF Creating
<1>4. EmitInto(g, o, CALL, fs) = Emit(k, <<Plain(o, fs, <<g.count>>)>>)
  BY <1>1 DEF EmitInto, Plain
<1>5. o \in Ops /\ <<g.count>> \in Temporaries
  BY <1>3, TemporariesAre DEF QuietOps, Ops, Silent
<1>6. h = Emit(k, <<Plain(o, fs, <<g.count>>)>>)
  BY <1>4
<1>7. h \in Creating(known, n) /\ h.value = k.value /\ h.count = k.count /\ h.cache = k.cache
  BY <1>2, <1>5, <1>6, PlainIsEmitted
<1> QED BY <1>2, <1>4, <1>6, <1>7

-----------------------------------------------------------------------------
(* Variables and expressions.                                               *)

(* Another temporary is the value.                                          *)
LEMMA AnotherValue ==
  ASSUME NEW known, NEW n \in Nat, NEW g \in Creating(known, n), NEW t \in Nat,
         NEW h, h = [g EXCEPT !.value = t]
  PROVE  /\ h \in Creating(known, n)
         /\ h.value = t /\ h.count = g.count /\ h.cache = g.cache /\ h.code = g.code
<1>1. g \in Creator
  BY DEF Creating
<1>2. /\ h \in Creator
      /\ h.value = t /\ h.count = g.count /\ h.cache = g.cache /\ h.code = g.code
  BY <1>1 DEF Creator
<1> HIDE DEF Creator
<1> QED BY <1>2 DEF Creating

(* A variable that is not in a temporary is loaded into the next one.       *)
Loaded(g, v) == [EmitInto(g, "load", v, <<>>) EXCEPT !.cache = With(@, v, g.count)]

(* The cache remembers where it is, and is right.                           *)
LEMMA LoadIsEmitted ==
  ASSUME NEW known, NEW n \in Nat, NEW g \in Creating(known, n),
         NEW v \in Variables, v \notin DOMAIN g.cache,
         NEW h, h = Loaded(g, v)
  PROVE  h \in Creating(known, n) /\ v \in DOMAIN h.cache /\ h.cache[v] = h.value
<1>1. PICK k : k = NextTemporary(g)
  OBVIOUS
<1>2. /\ k \in Creating(known, n) /\ k.value = g.count /\ k.count = g.count + 1
      /\ k.cache = g.cache /\ k.code = g.code
  BY <1>1, NextTemporaryIsTaken
<1>3. g \in Creator /\ g.count \in Nat /\ g.code \in Instructions /\ k \in Creator
  BY <1>2, CreatorParts DEF Creating
<1>4. PICK x, d : x = Instruction("load", v, <<>>, <<g.count>>) /\ d = <<x>>
  OBVIOUS
<1>5. /\ x.op = "load" /\ x.variable = v /\ x.to = <<g.count>>
      /\ d \in Instructions /\ DOMAIN d = {1} /\ Len(d) = 1 /\ d[1] = x
  <2>1. <<>> \in Temporaries /\ <<g.count>> \in Temporaries /\ "load" \in Ops /\ v \in Operands
    BY <1>3, TemporariesAre DEF Ops, Operands
  <2> QED BY <1>4, <2>1, InstructionParts
<1>6. x.to[1] = g.count
  BY <1>5
<1>7. PICK cache : cache = With(g.cache, v, g.count)
  OBVIOUS
<1>8. /\ cache \in Cache /\ DOMAIN cache = DOMAIN g.cache \cup {v} /\ cache[v] = g.count
      /\ \A u \in DOMAIN g.cache : cache[u] = g.cache[u]
  <2>1. DOMAIN g.cache \cup {v} \in SUBSET Variables /\ \A u \in DOMAIN g.cache : g.cache[u] \in Nat
    BY <1>3, CreatorParts
  <2>2. cache \in [DOMAIN g.cache \cup {v} -> Nat]
    BY <1>3, <1>7, <2>1 DEF With
  <2> QED BY <1>7, <2>1, <2>2 DEF With, Cache
<1>9. h = [[k EXCEPT !.code = g.code \o d] EXCEPT !.cache = cache]
  BY <1>1, <1>2, <1>3, <1>4, <1>7 DEF EmitInto, Emit, Creator, Loaded
<1>10. /\ h \in Creator /\ h.value = g.count /\ h.count = g.count + 1
       /\ h.code = g.code \o d /\ h.cache = cache
  <2>1. g.code \o d \in Instructions
    BY <1>3, <1>5, InstructionsInARow
  <2> QED BY <1>2, <1>3, <1>8, <1>9, <2>1 DEF Creator
<1>11. g.count \in 0..(h.count - 1) /\ g.count <= h.count
  BY <1>3, <1>10
<1>12. IsTrueAtEnd(known, h.code, h.cache, h.count)
  <2>1. Holds(known, h.code, Len(h.code) + 1, v, g.count)
    <3>1. Sets(d[1], v, g.count)
      BY <1>5, <1>6 DEF Sets
    <3>2. Holds(known, g.code \o d, Len(g.code \o d) + 1, v, g.count)
      BY <1>3, <1>5, <3>1, HoldsLoaded
    <3> QED BY <1>10, <3>2
  <2>2. ASSUME NEW u \in DOMAIN g.cache
        PROVE  g.cache[u] \in 0..(h.count - 1) /\ Holds(known, h.code, Len(h.code) + 1, u, g.cache[u])
    <3>1. g.cache[u] \in 0..(g.count - 1) /\ Holds(known, g.code, Len(g.code) + 1, u, g.cache[u])
      BY DEF Creating, IsTrueAtEnd
    <3>2. g.cache[u] \in 0..(h.count - 1) /\ g.cache[u] # g.count
      BY <1>3, <1>10, <3>1
    <3>3. ~Kills(x, u, g.cache[u])
      BY <1>5, <1>6, <3>2 DEF Kills, Calling
    <3>4. \A i \in DOMAIN d : ~Kills(d[i], u, g.cache[u])
      BY <1>5, <3>3
    <3>5. Holds(known, g.code \o d, Len(g.code \o d) + 1, u, g.cache[u])
      BY <1>3, <1>5, <3>1, <3>4, HoldsAfter
    <3> QED BY <1>10, <3>2, <3>5
  <2> QED BY <1>8, <1>10, <1>11, <2>1, <2>2 DEF IsTrueAtEnd
<1>13. h \in Creating(known, n)
  <2>1. x.op \notin Jumps /\ x.op \notin Marks
    BY <1>5 DEF Jumps, Marks
  <2>2. \A i \in DOMAIN d : d[i].op \notin Jumps
    BY <1>5, <2>1
  <2>3. \A i \in DOMAIN d :
          /\ d[i].op \in Marks =>
               /\ d[i].variable \in Variables /\ d[i].from[1] \in 0..(h.count - 1) /\ i = 1
               /\ Holds(known, g.code, Len(g.code) + 1, d[i].variable, d[i].from[1])
          /\ d[i].op = "load" => d[i].variable \in Variables /\ d[i].to[1] \in 0..(h.count - 1)
    BY <1>5, <1>6, <1>11, <2>1
  <2> QED BY <1>5, <1>10, <1>11, <1>12, <2>2, <2>3, GoesOn
<1> QED BY <1>8, <1>10, <1>13

(* A temporary of the cache is used.                                        *)
LEMMA MarkIsEmitted ==
  ASSUME NEW known, NEW n \in Nat, NEW g \in Creating(known, n),
         NEW v \in Variables, v \in DOMAIN g.cache, NEW o \in Marks,
         NEW h, h = Emit(g, <<Instruction(o, v, <<g.cache[v]>>, <<>>)>>)
  PROVE  h \in Creating(known, n) /\ h.value = g.value /\ h.count = g.count
<1>1. g \in Creator /\ g.count \in Nat /\ g.code \in Instructions /\ g.cache[v] \in Nat
  BY CreatorParts DEF Creating
<1>2. PICK x, d : x = Instruction(o, v, <<g.cache[v]>>, <<>>) /\ d = <<x>>
  OBVIOUS
<1>3. /\ x.op = o /\ x.variable = v /\ x.from = <<g.cache[v]>>
      /\ d \in Instructions /\ DOMAIN d = {1} /\ d[1] = x
  <2>1. <<>> \in Temporaries /\ <<g.cache[v]>> \in Temporaries /\ o \in Ops /\ v \in Operands
    BY <1>1, TemporariesAre DEF Ops, Operands, Marks, Silent
  <2> QED BY <1>2, <2>1, InstructionParts
<1>4. x.from[1] = g.cache[v]
  BY <1>3
<1>6. /\ h \in Creator /\ h.value = g.value /\ h.count = g.count
      /\ h.code = g.code \o d /\ h.cache = g.cache
  <2>1. g.code \o d \in Instructions
    BY <1>1, <1>3, InstructionsInARow
  <2> QED BY <1>1, <1>2, <2>1 DEF Emit, Creator
<1>7. x.op \notin Jumps \cup Calling /\ x.op # "load" /\ x.op # "store"
  BY <1>3 DEF Marks, Jumps, Calling
<1>8. IsTrueAtEnd(known, h.code, h.cache, h.count)
  <2>1. \A i \in DOMAIN d : \A u \in DOMAIN g.cache : ~Kills(d[i], u, g.cache[u])
    BY <1>3, <1>7 DEF Kills
  <2>2. g.count <= h.count /\ h.count \in Nat
    BY <1>1, <1>6
  <2>3. IsTrueAtEnd(known, g.code \o d, g.cache, h.count)
    BY <1>3, <2>1, <2>2, CacheStaysTrue
  <2> QED BY <1>6, <2>3
<1>9. g.cache[v] \in 0..(g.count - 1) /\ Holds(known, g.code, Len(g.code) + 1, v, g.cache[v])
  BY DEF Creating, IsTrueAtEnd
<1>10. h \in Creating(known, n)
  <2>1. g.count <= h.count /\ \A i \in DOMAIN d : d[i].op \notin Jumps
    BY <1>1, <1>3, <1>6, <1>7
  <2>2. \A i \in DOMAIN d :
          /\ d[i].op \in Marks =>
               /\ d[i].variable \in Variables /\ d[i].from[1] \in 0..(h.count - 1) /\ i = 1
               /\ Holds(known, g.code, Len(g.code) + 1, d[i].variable, d[i].from[1])
          /\ d[i].op = "load" => d[i].variable \in Variables /\ d[i].to[1] \in 0..(h.count - 1)
    BY <1>3, <1>4, <1>6, <1>7, <1>9
  <2> QED BY <1>3, <1>6, <1>8, <2>1, <2>2, GoesOn
<1> QED BY <1>6, <1>10
(* A variable is computed into a temporary.                                 *)
LEMMA VariableIsComputed ==
  ASSUME NEW known, NEW n \in Nat, NEW g \in Creating(known, n), NEW v \in Variables, NEW o \in Marks
  PROVE  ComputeVariable(g, v, o) \in Creating(known, n)
<1> DEFINE found == v \in DOMAIN g.cache
           h == IF found THEN [g EXCEPT !.value = g.cache[v]]
                ELSE [EmitInto(g, "load", v, <<>>) EXCEPT !.cache = With(@, v, g.count)]
<1>1. h \in Creating(known, n) /\ v \in DOMAIN h.cache /\ h.cache[v] = h.value
  <2>1. CASE found
    <3>1. g.cache[v] \in Nat
      BY <2>1, CreatorParts DEF Creating
    <3>2. h = [g EXCEPT !.value = g.cache[v]]
      BY <2>1
    <3> QED BY <2>1, <3>1, <3>2, AnotherValue
  <2>2. CASE ~found
    <3>1. h = Loaded(g, v)
      BY <2>2 DEF Loaded
    <3>2. v \notin DOMAIN g.cache
      BY <2>2
    <3> HIDE DEF h, found
    <3> QED BY <3>1, <3>2, LoadIsEmitted
  <2> QED BY <2>1, <2>2
<1>2. ComputeVariable(g, v, o) = Emit(h, <<Instruction(o, v, <<h.value>>, <<>>)>>)
  BY DEF ComputeVariable
<1> HIDE DEF h
<1>3. ComputeVariable(g, v, o) = Emit(h, <<Instruction(o, v, <<h.cache[v]>>, <<>>)>>)
  BY <1>1, <1>2
<1> QED BY <1>1, <1>3, MarkIsEmitted

(* A call of a function that changes no variable.                           *)
LEMMA CallIsComputed ==
  ASSUME NEW known, NEW n \in Nat, NEW g \in Creating(known, n), Shared = {}
  PROVE  ComputeCall(g) \in Creating(known, n)
<1>1. PICK h : h = EmitInto(g, "context", CALL, <<>>)
  OBVIOUS
<1>2. h \in Creating(known, n) /\ h.value \in Nat
  <2>1. <<>> \in Temporaries /\ "context" \in QuietOps
    BY TemporariesAre DEF QuietOps
  <2>2. h \in Creating(known, n)
    BY <1>1, <2>1, PlainIsEmittedInto
  <2> QED BY <2>2, CreatorParts DEF Creating
<1>3. PICK k : k = Emit(h, <<Plain("call", <<h.value>>, <<>>)>>)
  OBVIOUS
<1>4. /\ <<>> \in Temporaries /\ <<h.value>> \in Temporaries /\ "call" \in Ops /\ "call" \in Calling
      /\ "result" \in QuietOps
  BY <1>2, TemporariesAre DEF Ops, Calling, QuietOps
<1>5. k \in Creating(known, n)
  BY <1>2, <1>3, <1>4, PlainIsEmitted
<1>6. ComputeCall(g) = EmitInto(k, "result", CALL, <<h.value>>)
  BY <1>1, <1>3 DEF ComputeCall
<1> QED BY <1>4, <1>5, <1>6, PlainIsEmittedInto

(* A number.                                                                *)
LEMMA NumberIsComputed ==
  ASSUME NEW known, NEW n \in Nat, NEW g \in Creating(known, n)
  PROVE  ComputeNumber(g) \in Creating(known, n)
<1>1. <<>> \in Temporaries /\ "constant" \in QuietOps
  BY TemporariesAre DEF QuietOps
<1> QED BY <1>1, PlainIsEmittedInto DEF ComputeNumber

(* A step of an expression, alone and after others.                         *)
OneStep == {step \in Variables \cup {CALL} : step = CALL => Shared = {}}

(* A step of an expression: a variable, or a call that changes none.        *)
LEMMA StepIsComputed ==
  ASSUME NEW known, NEW n \in Nat, NEW g \in Creating(known, n), NEW step \in OneStep
  PROVE  ComputeStep(g, step) \in Creating(known, n)
<1>1. CASE step = CALL
  BY <1>1, CallIsComputed DEF ComputeStep, OneStep
<1>2. CASE step # CALL
  <2>1. step \in Variables /\ "read" \in Marks
    BY <1>2 DEF OneStep, Marks
  <2> QED BY <1>2, <2>1, VariableIsComputed DEF ComputeStep
<1> QED BY <1>1, <1>2

(* A step after others, whose values are operands of an operation.          *)
LEMMA StepIsAccumulated ==
  ASSUME NEW known, NEW n \in Nat, NEW g \in Creating(known, n), NEW step \in OneStep
  PROVE  Accumulate(g, step) \in Creating(known, n)
<1>1. PICK h : h = ComputeStep(g, step)
  OBVIOUS
<1>2. h \in Creating(known, n)
  BY <1>1, StepIsComputed
<1>3. g.value \in Nat /\ h.value \in Nat
  BY <1>2, CreatorParts DEF Creating
<1>4. <<g.value, h.value>> \in Temporaries /\ "operate" \in QuietOps
  BY <1>3, TemporariesAre DEF QuietOps
<1>5. Accumulate(g, step) = EmitInto(h, "operate", CALL, <<g.value, h.value>>)
  BY <1>1 DEF Accumulate
<1> QED BY <1>2, <1>4, <1>5, PlainIsEmittedInto

(* An expression.                                                           *)
LEMMA StepsAre ==
  ASSUME NEW steps \in Steps
  PROVE  /\ Len(steps) \in Nat /\ DOMAIN steps = 1..Len(steps) /\ (steps # <<>> => Len(steps) # 0)
         /\ \A i \in 1..Len(steps) : steps[i] \in OneStep
<1>1. steps \in Seq(Variables \cup {CALL}) /\ (Shared = {} \/ CALL \notin ToSet(steps))
  BY DEF Steps
<1>2. \A i \in DOMAIN steps : steps[i] \in ToSet(steps)
  BY DEF ToSet
<1>3. \A i \in DOMAIN steps : steps[i] \in OneStep
  BY <1>1, <1>2 DEF OneStep
<1> QED BY <1>1, <1>3

(* The steps of an expression, by a fold.                                   *)
LEMMA ExpressionIsComputed ==
  ASSUME NEW known, NEW n \in Nat, NEW g \in Creating(known, n), NEW steps \in Steps
  PROVE  ComputeIntoTemporary(g, steps) \in Creating(known, n)
<1> DEFINE V == Creating(known, n)
           body(f, k) == IF k = 1 THEN ComputeStep(g, steps[1]) ELSE Accumulate(f[k - 1], steps[k])
           IsIt(f) == f = [k \in 1..Len(steps) |-> body(f, k)]
           computed == CHOOSE f : IsIt(f)
           step == [k \in 1..Len(steps) |->
                      [h \in V |-> IF k = 1 THEN ComputeStep(g, steps[1]) ELSE Accumulate(h, steps[k])]]
<1>1. CASE steps = <<>>
  BY <1>1, NumberIsComputed DEF ComputeIntoTemporary
<1>2. CASE steps # <<>>
  <2>1. Len(steps) \in Nat /\ Len(steps) \in 1..Len(steps) /\ 1 \in 1..Len(steps)
    BY <1>2, StepsAre
  <2>2. step \in [1..Len(steps) -> [V -> V]]
    <3>1. ASSUME NEW k \in 1..Len(steps), NEW h \in V
          PROVE  (IF k = 1 THEN ComputeStep(g, steps[1]) ELSE Accumulate(h, steps[k])) \in V
      BY <2>1, StepsAre, StepIsComputed, StepIsAccumulated
    <3> HIDE DEF V
    <3> QED BY <3>1
  <2>3. g \in V
    OBVIOUS
  <2> HIDE DEF V
  <2>4. PICK f : Folds(f, Len(steps), V, g, step)
    <3> HIDE DEF step
    <3> QED BY <2>1, <2>2, <2>3, FoldExists
  <2>5. f \in [0..Len(steps) -> V] /\ \A k \in 1..Len(steps) : k - 1 \in 0..Len(steps) /\ f[k] = step[k][f[k - 1]]
    BY <2>1, <2>4 DEF Folds
  <2>6. \A k \in 1..Len(steps) : f[k] = body(f, k)
    BY <2>5
  <2> DEFINE f1 == [k \in 1..Len(steps) |-> f[k]]
  <2>7. IsIt(f1)
    <3>1. ASSUME NEW k \in 1..Len(steps) PROVE f1[k] = body(f1, k)
      <4>1. CASE k = 1
        BY <2>6, <4>1
      <4>2. CASE k # 1
        <5>1. k - 1 \in 1..Len(steps)
          BY <2>1, <4>2
        <5>2. f1[k - 1] = f[k - 1] /\ f1[k] = f[k]
          BY <5>1
        <5> QED BY <2>6, <4>2, <5>2
      <4> QED BY <4>1, <4>2
    <3> QED BY <3>1
  <2>8. IsIt(computed)
    <3> HIDE DEF IsIt
    <3> QED BY <2>7
  <2>9. \A k \in 1..Len(steps) : computed[k] = body(computed, k)
    <3>1. PICK c : c = computed
      OBVIOUS
    <3>2. c = [k \in 1..Len(steps) |-> body(c, k)]
      BY <2>8, <3>1, ZenonT(40)
    <3> QED BY <3>1, <3>2
  <2> DEFINE S == {k \in Nat : k + 1 \in 1..Len(steps) => computed[k + 1] \in V}
  <2>10. \A k \in Nat : k \in S
    <3> HIDE DEF computed
    <3>1. 0 \in S
      <4>1. computed[1] = ComputeStep(g, steps[1])
        BY <2>1, <2>9
      <4>2. ComputeStep(g, steps[1]) \in V
        BY <2>1, StepsAre, StepIsComputed DEF V
      <4> QED BY <4>1, <4>2
    <3>2. ASSUME NEW k \in Nat, k \in S PROVE k + 1 \in S
      <4>1. SUFFICES ASSUME (k + 1) + 1 \in 1..Len(steps) PROVE computed[(k + 1) + 1] \in V
        OBVIOUS
      <4>2. computed[k + 1] \in V
        BY <2>1, <3>2, <4>1
      <4>3. computed[(k + 1) + 1] = Accumulate(computed[k + 1], steps[(k + 1) + 1])
        <5>1. (k + 1) + 1 # 1 /\ ((k + 1) + 1) - 1 = k + 1
          OBVIOUS
        <5> QED BY <2>9, <4>1, <5>1
      <4> QED BY <4>1, <4>2, <4>3, StepsAre, StepIsAccumulated DEF V
    <3> HIDE DEF S
    <3> QED BY <3>1, <3>2, Induction
  <2>11. computed[Len(steps)] \in V
    <3>1. Len(steps) - 1 \in Nat /\ (Len(steps) - 1) + 1 = Len(steps)
      BY <2>1
    <3> HIDE DEF computed
    <3> QED BY <2>1, <2>10, <3>1
  <2>12. ComputeIntoTemporary(g, steps) = computed[Len(steps)]
    BY <1>2 DEF ComputeIntoTemporary
  <2> HIDE DEF computed
  <2> QED BY <2>11, <2>12 DEF V
<1> QED BY <1>1, <1>2

-----------------------------------------------------------------------------
(* Statements.                                                              *)

(* A variable is stored to.                                                 *)
Stored(g, v, from) ==
  [Emit(g, <<Instruction("store", v, from, <<>>)>>) EXCEPT !.cache = Without(@, v)]

(* The cache forgets the variable.                                          *)
LEMMA StoreIsEmitted ==
  ASSUME NEW known, NEW n \in Nat, NEW g \in Creating(known, n),
         NEW v \in Operands, NEW fs \in Temporaries, NEW h, h = Stored(g, v, fs)
  PROVE  h \in Creating(known, n)
<1>1. g \in Creator /\ g.count \in Nat /\ g.code \in Instructions
  BY CreatorParts DEF Creating
<1>2. PICK x, d : x = Instruction("store", v, fs, <<>>) /\ d = <<x>>
  OBVIOUS
<1>3. x.op = "store" /\ x.variable = v /\ d \in Instructions /\ DOMAIN d = {1} /\ d[1] = x
  <2>1. <<>> \in Temporaries /\ "store" \in Ops
    BY TemporariesAre DEF Ops
  <2> QED BY <1>2, <2>1, InstructionParts
<1>4. PICK cache : cache = Without(g.cache, v)
  OBVIOUS
<1>5. /\ cache \in Cache /\ DOMAIN cache = DOMAIN g.cache \ {v}
      /\ \A u \in DOMAIN cache : cache[u] = g.cache[u]
  <2>1. DOMAIN g.cache \ {v} \in SUBSET Variables /\ \A u \in DOMAIN g.cache : g.cache[u] \in Nat
    BY <1>1, CreatorParts
  <2>2. cache \in [DOMAIN g.cache \ {v} -> Nat]
    BY <1>4, <2>1 DEF Without
  <2> QED BY <1>4, <2>1, <2>2 DEF Without, Cache
<1>6. /\ h \in Creator /\ h.count = g.count /\ h.code = g.code \o d /\ h.cache = cache
  <2>1. g.code \o d \in Instructions
    BY <1>1, <1>3, InstructionsInARow
  <2> QED BY <1>1, <1>2, <1>4, <1>5, <2>1 DEF Stored, Emit, Creator
<1>7. IsTrueAtEnd(known, h.code, h.cache, h.count)
  <2>1. ASSUME NEW u \in DOMAIN cache
        PROVE  cache[u] \in 0..(h.count - 1) /\ Holds(known, h.code, Len(h.code) + 1, u, cache[u])
    <3>1. u \in DOMAIN g.cache /\ u # v /\ cache[u] = g.cache[u]
      BY <1>5
    <3>2. g.cache[u] \in 0..(g.count - 1) /\ Holds(known, g.code, Len(g.code) + 1, u, g.cache[u])
      BY <3>1 DEF Creating, IsTrueAtEnd
    <3>3. \A i \in DOMAIN d : ~Kills(d[i], u, g.cache[u])
      BY <1>3, <3>1 DEF Kills, Calling
    <3>4. Holds(known, g.code \o d, Len(g.code \o d) + 1, u, g.cache[u])
      BY <1>1, <1>3, <3>2, <3>3, HoldsAfter
    <3> QED BY <1>6, <3>1, <3>2, <3>4
  <2> QED BY <1>6, <2>1 DEF IsTrueAtEnd
<1>8. g.count <= h.count
  BY <1>1, <1>6
<1>9. \A i \in DOMAIN d : d[i].op \notin Jumps
  BY <1>3 DEF Jumps
<1>10. \A i \in DOMAIN d :
         /\ d[i].op \in Marks =>
              /\ d[i].variable \in Variables /\ d[i].from[1] \in 0..(h.count - 1) /\ i = 1
              /\ Holds(known, g.code, Len(g.code) + 1, d[i].variable, d[i].from[1])
         /\ d[i].op = "load" => d[i].variable \in Variables /\ d[i].to[1] \in 0..(h.count - 1)
  BY <1>3 DEF Marks
<1> QED BY <1>3, <1>6, <1>7, <1>8, <1>9, <1>10, GoesOn

(* An assignment, whose value or index may be a number.                     *)
LEMMA AssignmentIsEmitted ==
  ASSUME NEW known, NEW n \in Nat, NEW g \in Creating(known, n), NEW statement \in Assigned
  PROVE  ForAssignment(g, statement) \in Creating(known, n)
<1> DEFINE array == statement.variable = ELEMENT
           g1 == IF array THEN ComputeNumber(g) ELSE g
           g2 == IF statement.steps = <<>> THEN g1 ELSE ComputeIntoTemporary(g1, statement.steps)
           what == IF statement.steps = <<>> THEN <<>> ELSE <<g2.value>>
           index == IF array THEN <<g1.value>> ELSE <<>>
<1>1. statement.steps \in Steps /\ statement.variable \in Operands
  BY ControlFlowAssumption DEF Assigned, Operands
<1>2. g1 \in Creating(known, n)
  BY NumberIsComputed
<1>3. g2 \in Creating(known, n)
  <2> HIDE DEF g1
  <2> QED BY <1>1, <1>2, ExpressionIsComputed
<1>4. what \o index \in Temporaries
  <2> HIDE DEF g1, g2
  <2>1. g1.value \in Nat /\ g2.value \in Nat
    BY <1>2, <1>3, CreatorParts DEF Creating
  <2>2. what \in Seq(Nat) /\ index \in Seq(Nat)
    BY <2>1
  <2> HIDE DEF what, index
  <2> QED BY <2>2, ElementsInARow DEF Temporaries
<1>5. Assign(g, statement) = Emit(g2, <<Instruction("store", statement.variable, what \o index, <<>>)>>)
  BY DEF Assign
<1> HIDE DEF g2, what, index
<1>6. ForAssignment(g, statement) = Stored(g2, statement.variable, what \o index)
  BY <1>5 DEF ForAssignment, Stored
<1> QED BY <1>1, <1>3, <1>4, <1>6, StoreIsEmitted

(* The parameters of a call.                                                *)
LEMMA ParameterIsEmitted ==
  ASSUME NEW known, NEW n \in Nat, NEW g \in Creating(known, n), NEW context \in Nat, NEW steps \in Steps
  PROVE  AddParameter(g, context, steps) \in Creating(known, n)
<1>1. PICK h : h = ComputeIntoTemporary(g, steps)
  OBVIOUS
<1>2. h \in Creating(known, n) /\ h.value \in Nat
  BY <1>1, ExpressionIsComputed, CreatorParts DEF Creating
<1>3. /\ <<context, h.value>> \in Temporaries /\ <<>> \in Temporaries
      /\ "parameter" \in Ops /\ "parameter" \in QuietOps
  BY <1>2, TemporariesAre DEF Ops, Silent, QuietOps
<1>4. AddParameter(g, context, steps) = Emit(h, <<Plain("parameter", <<context, h.value>>, <<>>)>>)
  BY <1>1 DEF AddParameter
<1> QED BY <1>2, <1>3, <1>4, PlainIsEmitted

(* The parameters of a call, by a fold.                                     *)
LEMMA ParametersAreEmitted ==
  ASSUME NEW known, NEW n \in Nat, NEW g \in Creating(known, n), NEW context \in Nat,
         NEW parameters \in Seq(Steps)
  PROVE  AddParameters(g, context, parameters) \in Creating(known, n)
<1> DEFINE V == Creating(known, n)
           m == Len(parameters)
           IsIt(f) == f = [k \in 0..m |-> IF k = 0 THEN g ELSE AddParameter(f[k - 1], context, parameters[k])]
           added == CHOOSE f : IsIt(f)
           step == [k \in 1..m |-> [h \in V |-> AddParameter(h, context, parameters[k])]]
<1>1. m \in Nat /\ \A k \in 1..m : parameters[k] \in Steps
  <2> HIDE DEF Steps
  <2> QED OBVIOUS
<1>2. step \in [1..m -> [V -> V]] /\ g \in V
  <2>1. ASSUME NEW k \in 1..m, NEW h \in V PROVE AddParameter(h, context, parameters[k]) \in V
    BY <1>1, ParameterIsEmitted
  <2> HIDE DEF V, m
  <2> QED BY <2>1 DEF V
<1> HIDE DEF m, V
<1>3. PICK f : Folds(f, m, V, g, step)
  <2> HIDE DEF step
  <2> QED BY <1>1, <1>2, FoldExists
<1>4. IsIt([k \in 0..m |-> f[k]])
  <2>1. f \in [0..m -> V] /\ f[0] = g /\ \A k \in 1..m : k - 1 \in 0..m /\ f[k] = step[k][f[k - 1]]
    BY <1>1, <1>3 DEF Folds
  <2>2. \A k \in 1..m : f[k] = AddParameter(f[k - 1], context, parameters[k])
    BY <2>1
  <2>3. \A k \in 0..m : k # 0 => k \in 1..m
    BY <1>1
  <2> HIDE DEF step
  <2> QED BY <2>1, <2>2, <2>3
<1>5. IsIt(added)
  <2> HIDE DEF IsIt
  <2> QED BY <1>4
<1>6. added[0] = g /\ \A k \in 1..m : added[k] = AddParameter(added[k - 1], context, parameters[k])
  <2>1. PICK c : c = added
    OBVIOUS
  <2>2. c = [k \in 0..m |-> IF k = 0 THEN g ELSE AddParameter(c[k - 1], context, parameters[k])]
    BY <1>5, <2>1
  <2>3. 0 \in 0..m /\ \A k \in 1..m : k \in 0..m /\ k # 0
    BY <1>1
  <2> QED BY <2>1, <2>2, <2>3
<1>7. AddParameters(g, context, parameters) = added[m]
  BY DEF AddParameters, m
<1> HIDE DEF added
<1>8. \A k \in 1..m : added[k - 1] \in V => added[k] \in V
  BY <1>1, <1>6, ParameterIsEmitted DEF V
<1>9. added[m] \in V
  BY <1>1, <1>2, <1>6, <1>8, FoldStaysIn
<1> QED BY <1>7, <1>9 DEF V
(* What is emitted again before an indirect call: instructions that use no  *)
(* temporary for a variable and do not jump.                                *)
Repeatable(m) ==
  {x \in IRInstruction :
     /\ x.op \notin Marks /\ x.op \notin Jumps
     /\ x.op = "load" => x.variable \in Variables /\ x.to[1] \in 0..(m - 1)}

(* The instructions emitted since a state of the creator can be repeated.   *)
LEMMA WhatIsRepeated ==
  ASSUME NEW known, NEW n \in Nat, NEW before \in Creating(known, n), NEW after \in Creating(known, n)
  PROVE  EmittedSince(before, after) \in Seq(Repeatable(after.count))
<1> DEFINE R == Repeatable(after.count)
           V == Seq(R)
           since == SubSeq(after.code, Len(before.code) + 1, Len(after.code))
           m == Len(since)
           skips(k) == since[k].op \in {"read", "callee", "parameter"}
           body(d, k) == IF skips(k) THEN d ELSE Append(d, since[k])
           IsIt(f) == f = [k \in 0..m |-> IF k = 0 THEN <<>> ELSE IF skips(k) THEN f[k - 1]
                                                             ELSE Append(f[k - 1], since[k])]
           emitted == CHOOSE f : IsIt(f)
           step == [k \in 1..m |-> [d \in V |-> body(d, k)]]
<1>1. m \in Nat /\ \A k \in 1..m : \E i \in DOMAIN after.code : since[k] = after.code[i]
  <2>1. Len(before.code) \in Nat /\ after.code \in Instructions
    BY CreatorParts DEF Creating
  <2>2. PICK T, s, l : T = IRInstruction /\ s = after.code /\ l = Len(before.code)
    OBVIOUS
  <2>3. s \in Seq(T) /\ l \in Nat
    BY <2>1, <2>2 DEF Instructions
  <2>4. Len(SubSeq(s, l + 1, Len(s))) \in Nat
    BY <2>3
  <2>5. ASSUME NEW k \in 1..Len(SubSeq(s, l + 1, Len(s)))
        PROVE  \E i \in DOMAIN s : SubSeq(s, l + 1, Len(s))[k] = s[i]
    <3>1. SubSeq(s, l + 1, Len(s))[k] = s[l + k] /\ l + k \in DOMAIN s
      BY <2>3
    <3> QED BY <3>1
  <2> QED BY <2>2, <2>4, <2>5
<1>2. ASSUME NEW k \in 1..m, ~skips(k) PROVE since[k] \in R
  <2>1. PICK i \in DOMAIN after.code : since[k] = after.code[i]
    BY <1>1
  <2>2. PICK x : x = since[k]
    OBVIOUS
  <2>3. x \in IRInstruction
    BY <2>1, <2>2, CreatorParts, InstructionsInARow DEF Creating
  <2>4. x.op \notin Marks /\ x.op \notin Jumps
    BY <1>2, <2>1, <2>2 DEF Creating, Marks
  <2>5. x.op = "load" => x.variable \in Variables /\ x.to[1] \in 0..(after.count - 1)
    BY <2>1, <2>2 DEF Creating, AreSound
  <2> QED BY <2>2, <2>3, <2>4, <2>5 DEF Repeatable
<1> HIDE DEF since, R
<1>3. \A k \in 1..m, d \in V : body(d, k) \in V
  BY <1>2
<1>4. <<>> \in V
  OBVIOUS
<1> HIDE DEF skips, V, m
<1>5. step \in [1..m -> [V -> V]]
  BY <1>3
<1>6. PICK f : Folds(f, m, V, <<>>, step)
  <2> HIDE DEF step, body
  <2> QED BY <1>1, <1>4, <1>5, FoldExists DEF m
<1>7. IsIt([k \in 0..m |-> f[k]])
  <2>1. f \in [0..m -> V] /\ f[0] = <<>> /\ \A k \in 1..m : k - 1 \in 0..m /\ f[k] = step[k][f[k - 1]]
    BY <1>1, <1>6 DEF Folds, m
  <2>2. \A k \in 1..m : f[k] = body(f[k - 1], k)
    BY <2>1
  <2>3. \A k \in 0..m : k # 0 => k \in 1..m
    BY <1>1 DEF m
  <2> HIDE DEF step
  <2> QED BY <2>1, <2>2, <2>3
<1>8. IsIt(emitted)
  <2> HIDE DEF IsIt
  <2> QED BY <1>7
<1>9. emitted[0] = <<>> /\ \A k \in 1..m : emitted[k] = body(emitted[k - 1], k)
  <2>1. PICK c : c = emitted
    OBVIOUS
  <2>2. c = [k \in 0..m |-> IF k = 0 THEN <<>> ELSE IF skips(k) THEN c[k - 1] ELSE Append(c[k - 1], since[k])]
    BY <1>8, <2>1
  <2>3. 0 \in 0..m /\ \A k \in 1..m : k \in 0..m /\ k # 0
    BY <1>1 DEF m
  <2> QED BY <2>1, <2>2, <2>3
<1>10. EmittedSince(before, after) = emitted[m]
  BY DEF EmittedSince, m, since, skips
<1> HIDE DEF emitted, body
<1>11. \A k \in 1..m : emitted[k - 1] \in V => emitted[k] \in V
  BY <1>3, <1>9
<1>12. emitted[m] \in V
  <2>1. m \in Nat
    BY <1>1 DEF m
  <2> QED BY <1>4, <1>9, <1>11, <2>1, FoldStaysIn
<1> QED BY <1>10, <1>12 DEF V, R

(* After a call statement the cache is empty, whatever the call changes.    *)
LEMMA CallIsEmitted ==
  ASSUME NEW known, NEW n \in Nat, NEW g \in Creating(known, n), NEW d \in Seq(Repeatable(g.count)),
         NEW h, h = Flushed(Emit(g, d))
  PROVE  h \in Creating(known, n)
<1>1. g \in Creator /\ g.count \in Nat /\ g.code \in Instructions
  BY CreatorParts DEF Creating
<1>2. d \in Instructions /\ \A i \in DOMAIN d : d[i] \in Repeatable(g.count)
  <2>1. PICK R, T : R = Repeatable(g.count) /\ T = IRInstruction
    OBVIOUS
  <2>2. R \subseteq T
    BY <2>1 DEF Repeatable
  <2>3. d \in Seq(R)
    BY <2>1
  <2>4. d \in Seq(T) /\ \A i \in DOMAIN d : d[i] \in R
    BY ONLY <2>2, <2>3
  <2> QED BY <2>1, <2>4 DEF Instructions
<1>3. EmptyCache \in Cache /\ DOMAIN EmptyCache = {}
  <2>1. EmptyCache \in [{} -> Nat] /\ {} \in SUBSET Variables
    BY DEF EmptyCache
  <2> QED BY <2>1 DEF Cache
<1>4. /\ h \in Creator /\ h.count = g.count /\ h.code = g.code \o d /\ h.cache = EmptyCache
  <2>1. g.code \o d \in Instructions
    BY <1>1, <1>2, InstructionsInARow
  <2> QED BY <1>1, <1>3, <2>1 DEF Flushed, Emit, Creator
<1>5. IsTrueAtEnd(known, h.code, h.cache, h.count)
  BY <1>3, <1>4 DEF IsTrueAtEnd
<1>6. g.count <= h.count /\ \A i \in DOMAIN d : d[i].op \notin Jumps
  BY <1>1, <1>2, <1>4 DEF Repeatable
<1>7. \A i \in DOMAIN d :
        /\ d[i].op \in Marks =>
             /\ d[i].variable \in Variables /\ d[i].from[1] \in 0..(h.count - 1) /\ i = 1
             /\ Holds(known, g.code, Len(g.code) + 1, d[i].variable, d[i].from[1])
        /\ d[i].op = "load" => d[i].variable \in Variables /\ d[i].to[1] \in 0..(h.count - 1)
  BY <1>2, <1>4 DEF Repeatable
<1> QED BY <1>2, <1>4, <1>5, <1>6, <1>7, GoesOn

(* A call of a function that is known.                                      *)
LEMMA DirectCallIsEmitted ==
  ASSUME NEW known, NEW n \in Nat, NEW g \in Creating(known, n), NEW parameters \in Seq(Steps)
  PROVE  Flushed(ForDirectCall(g, parameters)) \in Creating(known, n)
<1>1. PICK g1 : g1 = EmitInto(g, "context", CALL, <<>>)
  OBVIOUS
<1>2. g1 \in Creating(known, n) /\ g1.value \in Nat
  <2>1. <<>> \in Temporaries /\ "context" \in QuietOps
    BY TemporariesAre DEF QuietOps
  <2>2. g1 \in Creating(known, n)
    BY <1>1, <2>1, PlainIsEmittedInto
  <2> QED BY <2>2, CreatorParts DEF Creating
<1>3. PICK g2 : g2 = AddParameters(g1, g1.value, parameters)
  OBVIOUS
<1>4. g2 \in Creating(known, n)
  BY <1>2, <1>3, ParametersAreEmitted
<1>5. PICK x, d : x = Plain("call", <<g1.value>>, <<>>) /\ d = <<x>>
  OBVIOUS
<1>6. d \in Seq(Repeatable(g2.count))
  <2>1. <<>> \in Temporaries /\ <<g1.value>> \in Temporaries /\ "call" \in Ops /\ CALL \in Operands
    BY <1>2, TemporariesAre DEF Ops, Calling, Operands
  <2>2. x \in IRInstruction /\ x.op = "call"
    BY <1>5, <2>1, InstructionParts DEF Plain
  <2>3. x \in Repeatable(g2.count)
    BY <2>2 DEF Repeatable, Marks, Jumps
  <2> HIDE DEF Repeatable
  <2> QED BY <1>5, <2>3
<1>7. ForDirectCall(g, parameters) = Emit(g2, d)
  BY <1>1, <1>3, <1>5 DEF ForDirectCall
<1> QED BY <1>4, <1>6, <1>7, CallIsEmitted

(* A call of a function in a variable: it computes the parameters twice.    *)
LEMMA IndirectCallIsEmitted ==
  ASSUME NEW known, NEW n \in Nat, NEW g \in Creating(known, n), NEW callee \in Variables,
         NEW parameters \in Seq(Steps)
  PROVE  Flushed(ForIndirectCall(g, callee, parameters)) \in Creating(known, n)
<1>1. PICK g1 : g1 = NextTemporary(g)
  OBVIOUS
<1>2. g1 \in Creating(known, n) /\ g1.value \in Nat
  BY <1>1, NextTemporaryIsTaken, CreatorParts DEF Creating
<1>3. PICK g2 : g2 = ComputeVariable(g1, callee, "callee")
  OBVIOUS
<1>4. g2 \in Creating(known, n) /\ g2.value \in Nat /\ g2.count \in Nat
  <2>1. "callee" \in Marks
    BY DEF Marks
  <2>2. g2 \in Creating(known, n)
    BY <1>2, <1>3, <2>1, VariableIsComputed
  <2> QED BY <2>2, CreatorParts DEF Creating
<1>5. PICK g3 : g3 = Emit(g2, <<Plain("context_of", <<g2.value>>, <<g1.value>>)>>)
  OBVIOUS
<1>6. g3 \in Creating(known, n) /\ g3.count = g2.count
  <2>1. /\ <<g2.value>> \in Temporaries /\ <<g1.value>> \in Temporaries
        /\ "context_of" \in Ops /\ "context_of" \in QuietOps
    BY <1>2, <1>4, TemporariesAre DEF Ops, Silent, QuietOps
  <2> QED BY <1>4, <1>5, <2>1, PlainIsEmitted
<1>7. PICK g4 : g4 = AddParameters(g3, g1.value, parameters)
  OBVIOUS
<1>8. g4 \in Creating(known, n) /\ g4.count \in Nat
  <2>1. g4 \in Creating(known, n)
    BY <1>2, <1>6, <1>7, ParametersAreEmitted
  <2> QED BY <2>1, CreatorParts DEF Creating
<1>9. g2.count <= g4.count
  <2>1. g3 \in Creating(known, g2.count)
    BY <1>4, <1>6 DEF Creating
  <2>2. g4 \in Creating(known, g2.count)
    BY <1>2, <1>4, <1>7, <2>1, ParametersAreEmitted
  <2> QED BY <2>2 DEF Creating
<1>10. PICK again : again = IF parameters = <<>> THEN EmittedSince(g1, g2)
                            ELSE EmittedSince(AddParameters(g3, g1.value, Front(parameters)), g4)
  OBVIOUS
<1>11. again \in Seq(Repeatable(g4.count))
  <2>1. CASE parameters = <<>>
    <3>1. again \in Seq(Repeatable(g2.count))
      BY <1>2, <1>4, <1>10, <2>1, WhatIsRepeated
    <3>2. Repeatable(g2.count) \subseteq Repeatable(g4.count)
      <4>1. \A t : t \in 0..(g2.count - 1) => t \in 0..(g4.count - 1)
        BY <1>4, <1>8, <1>9
      <4> HIDE DEF IRInstruction
      <4> QED BY <4>1 DEF Repeatable
    <3> QED BY ONLY <3>1, <3>2
  <2>2. CASE parameters # <<>>
    <3>1. Front(parameters) \in Seq(Steps)
      <4>1. PICK T : T = Steps
        OBVIOUS
      <4>2. parameters \in Seq(T)
        BY <4>1
      <4>3. Front(parameters) \in Seq(T)
        BY ONLY <4>2, <2>2 DEF Front
      <4> QED BY <4>1, <4>3
    <3>2. AddParameters(g3, g1.value, Front(parameters)) \in Creating(known, n)
      BY <1>2, <1>6, <3>1, ParametersAreEmitted
    <3> QED BY <1>8, <1>10, <2>2, <3>2, WhatIsRepeated
  <2> QED BY <2>1, <2>2
<1>12. PICK x, c : x = Plain("call_indirect", <<g2.value>>, <<>>) /\ c = <<x>>
  OBVIOUS
<1>13. x \in Repeatable(g4.count)
  <2>1. /\ <<>> \in Temporaries /\ <<g2.value>> \in Temporaries
        /\ "call_indirect" \in Ops /\ CALL \in Operands
    BY <1>4, TemporariesAre DEF Ops, Calling, Operands
  <2>2. x \in IRInstruction /\ x.op = "call_indirect"
    BY <1>12, <2>1, InstructionParts DEF Plain
  <2> QED BY <2>2 DEF Repeatable, Marks, Jumps
<1>14. PICK d : d = again \o <<x>>
  OBVIOUS
<1>15. d \in Seq(Repeatable(g4.count))
  <2>1. PICK R : R = Repeatable(g4.count)
    OBVIOUS
  <2>2. again \in Seq(R) /\ x \in R
    BY <1>11, <1>13, <2>1
  <2>3. d \in Seq(R)
    BY ONLY <1>14, <2>2
  <2> QED BY <2>1, <2>3
<1>16. ForIndirectCall(g, callee, parameters) = Emit(g4, d)
  BY <1>1, <1>3, <1>5, <1>7, <1>10, <1>12, <1>14 DEF ForIndirectCall
<1> QED BY <1>8, <1>15, <1>16, CallIsEmitted

(* A statement, and all statements of a block.                              *)
LEMMA StatementIsEmitted ==
  ASSUME NEW known, NEW n \in Nat, NEW g \in Creating(known, n), NEW statement \in Statement
  PROVE  ForStatement(g, statement) \in Creating(known, n)
<1>1. CASE statement \in Assigned
  <2>1. statement.kind = "assign"
    BY <1>1 DEF Assigned
  <2> QED BY <1>1, <2>1, AssignmentIsEmitted DEF ForStatement
<1>2. CASE statement \in Called
  <2>1. /\ statement.kind = "call" /\ statement.parameters \in Seq(Steps)
        /\ statement.callee \in Seq(Variables)
    BY <1>2 DEF Called
  <2>2. ForStatement(g, statement) = ForFunctionCall(g, statement)
    BY <2>1 DEF ForStatement
  <2>3. CASE statement.callee = <<>>
    BY <2>1, <2>2, <2>3, DirectCallIsEmitted DEF ForFunctionCall
  <2>4. CASE statement.callee # <<>>
    <3>1. statement.callee[1] \in Variables
      BY <2>1, <2>4
    <3> QED BY <2>1, <2>2, <2>4, <3>1, IndirectCallIsEmitted DEF ForFunctionCall
  <2> QED BY <2>3, <2>4
<1>3. CASE statement.kind = "return"
  <2>1. <<>> \in Temporaries /\ "return" \in Ops /\ "return" \in QuietOps
    BY TemporariesAre DEF Ops, QuietOps
  <2>2. ForStatement(g, statement) = Emit(g, <<Plain("return", <<>>, <<>>)>>)
    BY <1>3 DEF ForStatement
  <2> QED BY <2>1, <2>2, PlainIsEmitted
<1> QED BY <1>1, <1>2, <1>3 DEF Statement

(* The statements of a block, by a fold.                                    *)
LEMMA StatementsAreEmitted ==
  ASSUME NEW known, NEW n \in Nat, NEW g \in Creating(known, n), NEW statements \in Seq(Statement)
  PROVE  ForStatements(g, statements) \in Creating(known, n)
<1> DEFINE V == Creating(known, n)
           m == Len(statements)
           IsIt(f) == f = [k \in 0..m |-> IF k = 0 THEN g ELSE ForStatement(f[k - 1], statements[k])]
           created == CHOOSE f : IsIt(f)
           step == [k \in 1..m |-> [h \in V |-> ForStatement(h, statements[k])]]
<1>1. m \in Nat /\ \A k \in 1..m : statements[k] \in Statement
  <2> HIDE DEF Statement
  <2> QED OBVIOUS
<1>2. step \in [1..m -> [V -> V]] /\ g \in V
  <2>1. ASSUME NEW k \in 1..m, NEW h \in V PROVE ForStatement(h, statements[k]) \in V
    BY <1>1, StatementIsEmitted
  <2> HIDE DEF V, m
  <2> QED BY <2>1 DEF V
<1> HIDE DEF m, V
<1>3. PICK f : Folds(f, m, V, g, step)
  <2> HIDE DEF step
  <2> QED BY <1>1, <1>2, FoldExists
<1>4. IsIt([k \in 0..m |-> f[k]])
  <2>1. f \in [0..m -> V] /\ f[0] = g /\ \A k \in 1..m : k - 1 \in 0..m /\ f[k] = step[k][f[k - 1]]
    BY <1>1, <1>3 DEF Folds
  <2>2. \A k \in 1..m : f[k] = ForStatement(f[k - 1], statements[k])
    BY <2>1
  <2>3. \A k \in 0..m : k # 0 => k \in 1..m
    BY <1>1
  <2> HIDE DEF step
  <2> QED BY <2>1, <2>2, <2>3
<1>5. IsIt(created)
  <2> HIDE DEF IsIt
  <2> QED BY <1>4
<1>6. created[0] = g /\ \A k \in 1..m : created[k] = ForStatement(created[k - 1], statements[k])
  <2>1. PICK c : c = created
    OBVIOUS
  <2>2. c = [k \in 0..m |-> IF k = 0 THEN g ELSE ForStatement(c[k - 1], statements[k])]
    BY <1>5, <2>1
  <2>3. 0 \in 0..m /\ \A k \in 1..m : k \in 0..m /\ k # 0
    BY <1>1
  <2> QED BY <2>1, <2>2, <2>3
<1>7. ForStatements(g, statements) = created[m]
  BY DEF ForStatements, m
<1> HIDE DEF created
<1>8. \A k \in 1..m : created[k - 1] \in V => created[k] \in V
  BY <1>1, <1>6, StatementIsEmitted DEF V
<1>9. created[m] \in V
  BY <1>1, <1>2, <1>6, <1>8, FoldStaysIn
<1> QED BY <1>7, <1>9 DEF V

-----------------------------------------------------------------------------
(* The end of a block.                                                      *)

(* A jump or a return is emitted last.                                      *)
LEMMA JumpIsEmitted ==
  ASSUME NEW known, NEW n \in Nat, NEW g \in Creating(known, n), NEW next,
         NEW o \in Jumps \cup {"return"}, o = "goto" => Len(next) = 1, o = "test" => Len(next) = 2,
         NEW fs \in Temporaries, NEW h, h = Emit(g, <<Plain(o, fs, <<>>)>>)
  PROVE  /\ h \in Creator /\ n <= h.count
         /\ AreSound(known, h.code, h.count) /\ IsTrueAtEnd(known, h.code, h.cache, h.count)
         /\ Ends(h.code, next)
<1>1. g \in Creator /\ g.count \in Nat /\ g.code \in Instructions /\ n <= g.count
  BY CreatorParts DEF Creating
<1>2. PICK x, d : x = Plain(o, fs, <<>>) /\ d = <<x>>
  OBVIOUS
<1>3. x.op = o /\ d \in Instructions /\ DOMAIN d = {1} /\ Len(d) = 1 /\ d[1] = x
  <2>1. <<>> \in Temporaries /\ o \in Ops /\ CALL \in Operands
    BY TemporariesAre DEF Ops, Operands, Jumps
  <2> QED BY <1>2, <2>1, InstructionParts DEF Plain
<1>4. /\ h \in Creator /\ h.count = g.count /\ h.code = g.code \o d /\ h.cache = g.cache
  <2>1. g.code \o d \in Instructions
    BY <1>1, <1>3, InstructionsInARow
  <2> QED BY <1>1, <1>2, <2>1 DEF Emit, Creator
<1>5. \A i \in DOMAIN d : d[i].op \notin Marks /\ d[i].op # "load"
  BY <1>3 DEF Jumps, Marks
<1>6. AreSound(known, h.code, h.count)
  <2>1. AreSound(known, g.code, g.count)
    BY DEF Creating
  <2>2. \A i \in DOMAIN d :
          /\ d[i].op \in Marks =>
               /\ d[i].variable \in Variables /\ d[i].from[1] \in 0..(g.count - 1) /\ i = 1
               /\ Holds(known, g.code, Len(g.code) + 1, d[i].variable, d[i].from[1])
          /\ d[i].op = "load" => d[i].variable \in Variables /\ d[i].to[1] \in 0..(g.count - 1)
    BY <1>5
  <2>3. AreSound(known, g.code \o d, g.count)
    BY <1>1, <1>3, <2>1, <2>2, SoundInARow
  <2> QED BY <1>4, <2>3
<1>7. IsTrueAtEnd(known, h.code, h.cache, h.count)
  <2>1. \A i \in DOMAIN d : \A v \in DOMAIN g.cache : ~Kills(d[i], v, g.cache[v])
    BY <1>3 DEF Jumps, Kills, Calling
  <2>2. IsTrueAtEnd(known, g.code \o d, g.cache, g.count)
    BY <1>1, <1>3, <2>1, CacheStaysTrue
  <2> QED BY <1>4, <2>2
<1>8. Ends(h.code, next)
  <2>1. PICK c : c = g.code
    OBVIOUS
  <2>2. PICK e : e = c \o d
    OBVIOUS
  <2>3. /\ Len(e) = Len(c) + 1 /\ Len(c) \in Nat /\ DOMAIN e = 1..Len(e)
        /\ \A i \in 1..Len(c) : e[i] = c[i]
        /\ e[Len(c) + 1] = x
    <3>1. c \in Instructions
      BY <1>1, <2>1
    <3>2. /\ Len(c \o d) = Len(c) + Len(d) /\ Len(c) \in Nat /\ DOMAIN c = 1..Len(c)
          /\ DOMAIN (c \o d) = 1..(Len(c) + Len(d))
          /\ \A i \in DOMAIN c : (c \o d)[i] = c[i]
          /\ \A i \in DOMAIN d : (c \o d)[Len(c) + i] = d[i]
      BY <1>3, <3>1, InstructionsInARow
    <3> QED BY <1>3, <2>2, <3>2
  <2>4. \A i \in 1..Len(c) : c[i].op \notin Jumps
    BY <1>1, <2>1, CreatorParts DEF Creating
  <2>5. \A i \in DOMAIN e : i \in 1..Len(c) \/ i = Len(e)
    BY <2>3
  <2>6. e[Len(e)] = x
    BY <2>3
  <2>7. \A i \in 1..Len(c) : e[i].op \notin Jumps
    BY <2>3, <2>4
  <2>8. Ends(e, next)
    <3>1. Len(e) # 0 /\ e[Len(e)].op \in Jumps \cup {"return"}
      BY <1>3, <2>3, <2>6
    <3>2. ASSUME NEW i \in DOMAIN e
          PROVE  /\ e[i].op \in Jumps => i = Len(e)
                 /\ e[i].op = "goto" => Len(next) = 1
                 /\ e[i].op = "test" => Len(next) = 2
      BY <1>3, <2>5, <2>6, <2>7 DEF Jumps
    <3> QED BY <3>1, <3>2 DEF Ends
  <2> QED BY <1>4, <2>1, <2>2, <2>8
<1> QED BY <1>1, <1>4, <1>6, <1>7, <1>8

(* A condition.                                                             *)
LEMMA FrontAndLast ==
  ASSUME NEW steps \in Steps, ~(Len(steps) <= 1)
  PROVE  Front(steps) \in Steps /\ <<Last(steps)>> \in Steps
<1>1. PICK T : T = Variables \cup {CALL}
  OBVIOUS
<1>2. steps \in Seq(T) /\ (Shared = {} \/ CALL \notin ToSet(steps))
  BY <1>1 DEF Steps
<1>3. PICK f, l : f = Front(steps) /\ l = <<Last(steps)>>
  OBVIOUS
<1>4. f \in Seq(T) /\ l \in Seq(T)
  BY <1>2, <1>3 DEF Front, Last
<1>5. \A i \in DOMAIN f : i \in DOMAIN steps /\ f[i] = steps[i]
  BY <1>2, <1>3 DEF Front
<1>6. Len(steps) \in DOMAIN steps /\ \A i \in DOMAIN l : l[i] = steps[Len(steps)]
  BY <1>2, <1>3 DEF Last
<1>7. ToSet(f) \subseteq ToSet(steps) /\ ToSet(l) \subseteq ToSet(steps)
  BY ONLY <1>5, <1>6 DEF ToSet
<1> QED BY <1>1, <1>2, <1>3, <1>4, <1>7 DEF Steps

(* A condition ends its block with a test.                                  *)
LEMMA ConditionIsEmitted ==
  ASSUME NEW known, NEW n \in Nat, NEW g \in Creating(known, n), NEW steps \in Steps,
         NEW next, Len(next) = 2, NEW h, h = ForCondition(g, steps)
  PROVE  /\ h \in Creator /\ n <= h.count
         /\ AreSound(known, h.code, h.count) /\ IsTrueAtEnd(known, h.code, h.cache, h.count)
         /\ Ends(h.code, next)
<1> DEFINE single == Len(steps) <= 1
           s1 == IF single THEN steps ELSE Front(steps)
           s2 == IF single THEN <<>> ELSE <<Last(steps)>>
<1>1. s1 \in Steps /\ s2 \in Steps
  <2>1. <<>> \in Steps
    <3>1. ToSet(<<>>) = {}
      BY DEF ToSet
    <3> QED BY <3>1 DEF Steps
  <2> QED BY <2>1, FrontAndLast
<1> HIDE DEF s1, s2
<1>2. PICK g1 : g1 = ComputeIntoTemporary(g, s1)
  OBVIOUS
<1>3. PICK g2 : g2 = ComputeIntoTemporary(g1, s2)
  OBVIOUS
<1>4. g1 \in Creating(known, n) /\ g2 \in Creating(known, n)
  BY <1>1, <1>2, <1>3, ExpressionIsComputed
<1>5. <<g1.value, g2.value>> \in Temporaries
  BY <1>4, CreatorParts, TemporariesAre DEF Creating
<1>6. h = Emit(g2, <<Plain("test", <<g1.value, g2.value>>, <<>>)>>)
  BY <1>2, <1>3 DEF ForCondition, s1, s2
<1>7. "test" \in Jumps \cup {"return"}
  BY DEF Jumps
<1> QED BY <1>4, <1>5, <1>6, <1>7, JumpIsEmitted

(* The end of a block: a jump to what is next, or a return.                 *)
LEMMA BlockIsEnded ==
  ASSUME NEW known, NEW n \in Nat, NEW g \in Creating(known, n), NEW block \in BasicBlock,
         Len(block.next) \in 0..2, NEW h, h = ForBlockEnd(g, block)
  PROVE  /\ h \in Creator /\ n <= h.count
         /\ AreSound(known, h.code, h.count) /\ IsTrueAtEnd(known, h.code, h.cache, h.count)
         /\ Ends(h.code, block.next)
<1>0. <<>> \in Temporaries /\ "goto" \in Jumps /\ "return" \in Jumps \cup {"return"}
  BY TemporariesAre DEF Jumps
<1>1. CASE Len(block.next) = 1
  <2>1. h = Emit(g, <<Plain("goto", <<>>, <<>>)>>)
    BY <1>1 DEF ForBlockEnd
  <2> QED BY <1>0, <1>1, <2>1, JumpIsEmitted
<1>2. CASE Len(block.next) = 2
  <2>1. h = ForCondition(g, block.condition) /\ block.condition \in Steps
    BY <1>2 DEF ForBlockEnd, BasicBlock
  <2> QED BY <1>2, <2>1, ConditionIsEmitted
<1>3. CASE Len(block.next) # 1 /\ Len(block.next) # 2
  <2>1. CASE g.code # <<>> /\ Last(g.code).op = "return"
    <3>1. h = g
      BY <1>3, <2>1 DEF ForBlockEnd
    <3>2. /\ g \in Creator /\ n <= g.count /\ AreSound(known, g.code, g.count)
          /\ IsTrueAtEnd(known, g.code, g.cache, g.count)
          /\ \A i \in DOMAIN g.code : g.code[i].op \notin Jumps
      BY DEF Creating
    <3>3. Len(g.code) # 0
      <4>1. PICK c : c = g.code
        OBVIOUS
      <4>2. c \in Seq(IRInstruction) /\ c # <<>>
        BY <2>1, <3>2, <4>1, CreatorParts DEF Instructions
      <4>3. Len(c) # 0
        BY ONLY <4>2
      <4> QED BY <4>1, <4>3
    <3>4. g.code[Len(g.code)].op = "return"
      BY <2>1 DEF Last
    <3>5. Ends(g.code, block.next)
      BY <3>2, <3>3, <3>4 DEF Ends, Jumps
    <3> QED BY <3>1, <3>2, <3>5
  <2>2. CASE ~(g.code # <<>> /\ Last(g.code).op = "return")
    <3>1. h = Emit(g, <<Plain("return", <<>>, <<>>)>>)
      BY <1>3, <2>2 DEF ForBlockEnd
    <3> QED BY <1>0, <3>1, JumpIsEmitted
  <2> QED BY <2>1, <2>2
<1> QED BY <1>1, <1>2, <1>3

-----------------------------------------------------------------------------
(* The instructions of a block are created.                                 *)

(* The previous blocks of a block, and what all of them know.               *)
LEMMA PreviousAre ==
  ASSUME CfgPart, NEW b \in DOMAIN blocks
  PROVE  /\ blocks[b] \in BasicBlock /\ b \in Nat
         /\ \A p \in ToSet(blocks[b].previous) : p \in Numbers
         /\ ToSet(blocks[b].previous) = {} <=> blocks[b].previous = <<>>
         /\ blocks[b].previous # <<>> => blocks[b].previous[1] \in ToSet(blocks[b].previous)
         /\ \A i \in 1..Len(blocks[b].previous) : blocks[b].previous[i] \in ToSet(blocks[b].previous)
         /\ \A p \in ToSet(blocks[b].previous) :
              \E i \in 1..Len(blocks[b].previous) : p = blocks[b].previous[i]
<1>1. blocks \in Seq(BasicBlock)
  BY DEF CfgPart, AreConnected
<1>2. blocks[b] \in BasicBlock /\ b \in Nat
  <2> HIDE DEF BasicBlock
  <2> QED BY <1>1
<1>3. PICK s : s = blocks[b].previous
  OBVIOUS
<1>4. s \in Seq(Numbers)
  BY <1>2, <1>3 DEF BasicBlock
<1>5. /\ \A p \in ToSet(s) : p \in Numbers
      /\ ToSet(s) = {} <=> s = <<>>
      /\ s # <<>> => s[1] \in ToSet(s)
      /\ \A i \in 1..Len(s) : s[i] \in ToSet(s)
      /\ \A p \in ToSet(s) : \E i \in 1..Len(s) : p = s[i]
  <2>1. DOMAIN s = 1..Len(s) /\ \A i \in DOMAIN s : s[i] \in Numbers
    BY <1>4
  <2>2. s # <<>> => 1 \in DOMAIN s
    BY <1>4
  <2>3. s = <<>> => DOMAIN s = {}
    BY <1>4
  <2> HIDE DEF Numbers
  <2> QED BY ONLY <2>1, <2>2, <2>3 DEF ToSet
<1> QED BY <1>2, <1>3, <1>5

(* The parts of the invariant about the instructions.                       *)
LEMMA CachesAre ==
  ASSUME IRPart
  PROVE  /\ code \in Seq(Instructions) /\ caches \in Seq(Cache) /\ count \in Nat
         /\ Len(code) = Len(caches) /\ Len(code) \in Nat /\ DOMAIN code = 1..Len(code)
         /\ \A p \in 1..Len(code) :
              /\ caches[p] \in Cache /\ code[p] \in Instructions
              /\ \A v \in DOMAIN caches[p] : caches[p][v] \in 0..(count - 1)
<1>1. code \in Seq(Instructions) /\ caches \in Seq(Cache) /\ count \in Nat /\ Len(code) = Len(caches)
  BY DEF IRPart, Instructions
<1>2. Len(code) \in Nat /\ DOMAIN code = 1..Len(code)
  BY <1>1
<1>3. ASSUME NEW p \in 1..Len(code)
      PROVE  /\ caches[p] \in Cache /\ code[p] \in Instructions
             /\ \A v \in DOMAIN caches[p] : caches[p][v] \in 0..(count - 1)
  <2>1. caches[p] \in Cache /\ code[p] \in Instructions
    <3> HIDE DEF Cache
    <3> QED BY <1>1
  <2>2. IsTrueAtEnd(KnownBefore(p), code[p], caches[p], count)
    BY <1>2 DEF IRPart
  <2> QED BY <2>1, <2>2 DEF IsTrueAtEnd
<1> QED BY <1>1, <1>2, <1>3

(* What the creator begins a block with is known at its beginning.          *)
Beginning(b) ==
  [code |-> <<>>, cache |-> IntersectPrevious(blocks[b].previous), count |-> count, value |-> 0]

(* The cache of a block begins as the intersection of the previous ones.    *)
LEMMA BeginsAsKnown ==
  ASSUME CfgPart, IRPart, NEW b \in DOMAIN blocks, b = Len(code) + 1
  PROVE  Beginning(b) \in Creating(KnownBefore(b), count)
<1> DEFINE previous == blocks[b].previous
           cache == IntersectPrevious(previous)
           first == caches[previous[1]]
           Unknown == previous = <<>> \/ \E i \in 1..Len(previous) : previous[i] > Len(caches)
<1>1. /\ Len(code) = Len(caches) /\ Len(code) \in Nat /\ count \in Nat /\ b \in Nat
      /\ \A p \in ToSet(previous) : p \in Numbers
  BY CachesAre, PreviousAre
<1>2. CASE Unknown
  <2>1. cache = EmptyCache
    BY <1>2 DEF IntersectPrevious
  <2>2. EmptyCache \in Cache /\ DOMAIN EmptyCache = {}
    <3>1. EmptyCache \in [{} -> Nat] /\ {} \in SUBSET Variables
      BY DEF EmptyCache
    <3> QED BY <3>1 DEF Cache
  <2>3. cache \in Cache /\ \A v \in DOMAIN cache : FALSE
    BY <2>1, <2>2
  <2> QED BY <1>1, <2>3 DEF Beginning, Creating, Creator, AreSound, IsTrueAtEnd, Instructions
<1>3. CASE ~Unknown
  <2>1. previous # <<>> /\ \A p \in ToSet(previous) : p \in 1..Len(code) /\ p < b
    <3>1. ASSUME NEW p \in ToSet(previous) PROVE p \in 1..Len(code) /\ p < b
      <4>1. PICK i \in 1..Len(previous) : p = previous[i]
        BY PreviousAre
      <4>2. p \in Numbers /\ ~(p > Len(caches))
        BY <1>1, <1>3, <4>1
      <4> QED BY <1>1, <4>2 DEF Numbers
    <3> QED BY <1>3, <3>1
  <2>2. previous[1] \in ToSet(previous) /\ first \in Cache
    BY <2>1, PreviousAre, CachesAre
  <2>3. KnownBefore(b) = {pair \in Pairs(first) : \A p \in ToSet(previous) : pair \in Pairs(caches[p])}
    <3>1. ToSet(previous) # {} /\ ~\E p \in ToSet(previous) : p >= b
      <4>1. \A p \in ToSet(previous) : p \in Nat /\ p < b
        BY <1>1, <2>1 DEF Numbers
      <4> QED BY <1>1, <2>2, <4>1
    <3> QED BY <3>1 DEF KnownBefore
  <2>4. /\ \A v \in DOMAIN cache : v \in DOMAIN first /\ cache[v] = first[v]
        /\ \A v \in DOMAIN cache : \A i \in 1..Len(previous) :
             v \in DOMAIN caches[previous[i]] /\ caches[previous[i]][v] = first[v]
    BY <1>3 DEF IntersectPrevious
  <2>5. cache \in Cache
    <3>1. cache = [v \in DOMAIN cache |-> cache[v]]
      BY <1>3 DEF IntersectPrevious
    <3>2. DOMAIN first \in SUBSET Variables /\ \A v \in DOMAIN first : first[v] \in Nat
      BY <2>2 DEF Cache
    <3> HIDE DEF cache, first
    <3>3. DOMAIN cache \in SUBSET Variables /\ \A v \in DOMAIN cache : cache[v] \in Nat
      BY <2>4, <3>2
    <3>4. cache \in [DOMAIN cache -> Nat]
      BY <3>1, <3>3
    <3> QED BY <3>3, <3>4 DEF Cache
  <2>6. ASSUME NEW v \in DOMAIN cache
        PROVE  cache[v] \in 0..(count - 1) /\ <<v, cache[v]>> \in KnownBefore(b)
    <3>1. v \in DOMAIN first /\ cache[v] = first[v] /\ first[v] \in 0..(count - 1)
      BY <2>1, <2>2, <2>4, CachesAre
    <3> HIDE DEF cache, first
    <3>2. ASSUME NEW p \in ToSet(previous)
          PROVE  v \in DOMAIN caches[p] /\ caches[p][v] = cache[v]
      <4>1. PICK i \in 1..Len(previous) : p = previous[i]
        BY PreviousAre
      <4>2. v \in DOMAIN caches[previous[i]] /\ caches[previous[i]][v] = first[v]
        BY <2>4
      <4> QED BY <3>1, <4>1, <4>2
    <3> QED BY <2>3, <3>1, <3>2 DEF Pairs
  <2> HIDE DEF cache
  <2>7. IsTrueAtEnd(KnownBefore(b), <<>>, cache, count)
    <3>1. ASSUME NEW v \in DOMAIN cache PROVE Holds(KnownBefore(b), <<>>, 1, v, cache[v])
      <4>1. 0 \in 0..(1 - 1) /\ (0 + 1)..(1 - 1) = {}
        OBVIOUS
      <4> QED BY <2>6, <4>1 DEF Holds
    <3>2. Len(<<>>) + 1 = 1
      OBVIOUS
    <3> QED BY <2>6, <3>1, <3>2 DEF IsTrueAtEnd
  <2>8. AreSound(KnownBefore(b), <<>>, count) /\ <<>> \in Instructions /\ DOMAIN <<>> = {}
    BY DEF AreSound, Instructions
  <2>9. Beginning(b) = [code |-> <<>>, cache |-> cache, count |-> count, value |-> 0]
    BY DEF Beginning, cache
  <2> QED BY <1>1, <2>5, <2>7, <2>8, <2>9 DEF Creating, Creator
<1> QED BY <1>2, <1>3

(* The creation of a block leaves the blocks before it as they are.         *)
LEMMA BlockIsCreated ==
  ASSUME CfgPart, IRPart, CreateForBasicBlock
  PROVE  IRPart'
<1> DEFINE b == Len(code) + 1
           block == blocks[b]
           known == KnownBefore(b)
           g == ForStatements(Beginning(b), block.statements)
           end == ForBlockEnd(g, block)
<1>1. /\ Len(code) \in Nat /\ Len(code) = Len(caches) /\ Len(blocks) \in Nat /\ DOMAIN blocks = 1..Len(blocks)
      /\ count \in Nat /\ b \in DOMAIN blocks /\ Len(code) < Len(blocks)
      /\ code \in Seq(Instructions) /\ caches \in Seq(Cache)
  <2>1. blocks \in Seq(BasicBlock)
    BY DEF CfgPart, AreConnected
  <2>2. Len(blocks) \in Nat /\ DOMAIN blocks = 1..Len(blocks)
    BY <2>1
  <2>3. Len(code) < Len(blocks)
    BY DEF CreateForBasicBlock
  <2> QED BY <2>2, <2>3, CachesAre
<1>2. block \in BasicBlock /\ Len(block.next) \in 0..2
  BY <1>1, PreviousAre DEF CfgPart, AreConnected
<1>3. g \in Creating(known, count)
  <2>1. Beginning(b) \in Creating(known, count)
    BY <1>1, BeginsAsKnown
  <2>2. block.statements \in Seq(Statement)
    BY <1>2 DEF BasicBlock
  <2> HIDE DEF b
  <2> QED BY <1>1, <2>1, <2>2, StatementsAreEmitted
<1>4. /\ end \in Creator /\ count <= end.count
      /\ AreSound(known, end.code, end.count) /\ IsTrueAtEnd(known, end.code, end.cache, end.count)
      /\ Ends(end.code, block.next)
  <2> HIDE DEF b, g
  <2> QED BY <1>1, <1>2, <1>3, BlockIsEnded
<1>5. /\ code' = Append(code, end.code) /\ caches' = Append(caches, end.cache) /\ count' = end.count
      /\ blocks' = blocks
  BY DEF CreateForBasicBlock, Beginning, cfg_vars
<1>6. end.code \in Instructions /\ end.cache \in Cache /\ end.count \in Nat
  BY <1>4, CreatorParts
<1> HIDE DEF end, g, block, known, b
<1>7. /\ code' \in Seq(Instructions) /\ Len(code') = Len(code) + 1 /\ DOMAIN code' = DOMAIN code \cup {b}
      /\ code'[b] = end.code /\ \A c \in DOMAIN code : code'[c] = code[c]
      /\ caches' \in Seq(Cache) /\ Len(caches') = Len(caches) + 1 /\ caches'[b] = end.cache
      /\ \A c \in DOMAIN caches : caches'[c] = caches[c]
  <2> HIDE DEF Instructions, Cache
  <2> QED BY <1>1, <1>5, <1>6, ElementAppended DEF b
<1>8. DOMAIN code = 1..Len(code) /\ DOMAIN caches = 1..Len(code) /\ b = Len(code) + 1
  <2> HIDE DEF Instructions, Cache
  <2> QED BY <1>1 DEF b
<1>9. ASSUME NEW c \in 1..b PROVE KnownBefore(c)' = KnownBefore(c)
  <2>1. c \in DOMAIN blocks /\ c \in Nat
    BY <1>1, <1>8
  <2>2. PICK previous : previous = blocks[c].previous
    OBVIOUS
  <2>3. PICK P : P = ToSet(previous)
    OBVIOUS
  <2>4. CASE P = {} \/ \E p \in P : p >= c
    <3>1. KnownBefore(c) = {} /\ KnownBefore(c)' = {}
      BY <1>5, <2>2, <2>3, <2>4 DEF KnownBefore
    <3> QED BY <3>1
  <2>5. CASE ~(P = {} \/ \E p \in P : p >= c)
    <3>1. \A p \in P : p \in Numbers /\ ~(p >= c)
      BY <2>1, <2>2, <2>3, <2>5, PreviousAre
    <3>2. \A p \in P : p \in 1..Len(code)
      BY <1>1, <1>8, <2>1, <3>1 DEF Numbers
    <3>3. \A p \in P : caches'[p] = caches[p]
      BY <1>7, <1>8, <3>2
    <3>4. previous[1] \in P
      BY <2>1, <2>2, <2>3, <2>5, PreviousAre
    <3>5. KnownBefore(c) = {pair \in Pairs(caches[previous[1]]) : \A p \in P : pair \in Pairs(caches[p])}
      BY <2>2, <2>3, <2>5 DEF KnownBefore
    <3>6. KnownBefore(c)' = {pair \in Pairs(caches'[previous[1]]) : \A p \in P : pair \in Pairs(caches'[p])}
      BY <1>5, <2>2, <2>3, <2>5 DEF KnownBefore
    <3> QED BY <3>3, <3>4, <3>5, <3>6
  <2> QED BY <2>4, <2>5
<1>10. ASSUME NEW c \in DOMAIN code'
       PROVE  /\ Ends(code'[c], blocks'[c].next)
              /\ AreSound(KnownBefore(c)', code'[c], count')
              /\ IsTrueAtEnd(KnownBefore(c)', code'[c], caches'[c], count')
  <2>1. CASE c \in DOMAIN code
    <3>1. /\ Ends(code[c], blocks[c].next)
          /\ AreSound(KnownBefore(c), code[c], count)
          /\ IsTrueAtEnd(KnownBefore(c), code[c], caches[c], count)
      BY <2>1 DEF IRPart
    <3>2. AreSound(KnownBefore(c), code[c], end.count) /\ IsTrueAtEnd(KnownBefore(c), code[c], caches[c], end.count)
      BY <1>1, <1>4, <1>6, <3>1, SoundWithMore, TrueWithMore
    <3>3. KnownBefore(c)' = KnownBefore(c)
      BY <1>1, <1>8, <1>9, <2>1
    <3>4. code'[c] = code[c] /\ caches'[c] = caches[c]
      BY <1>7, <1>8, <2>1
    <3> QED BY <1>5, <3>1, <3>2, <3>3, <3>4
  <2>2. CASE c = b
    <3>1. KnownBefore(c)' = known
      BY <1>1, <1>8, <1>9, <2>2 DEF known
    <3> QED BY <1>4, <1>5, <1>7, <2>2, <3>1 DEF block
  <2> QED BY <1>7, <2>1, <2>2
<1>11. Len(code') <= Len(blocks)
  BY <1>1, <1>7
<1>12. code' \in Seq(Seq(IRInstruction)) /\ caches' \in Seq(Cache) /\ count' \in Nat /\ Len(code') = Len(caches')
  BY <1>1, <1>5, <1>6, <1>7 DEF Instructions
<1> QED BY <1>5, <1>10, <1>11, <1>12 DEF IRPart

-----------------------------------------------------------------------------
(* The compiled function runs.                                              *)

(* What holds before the next instruction held before this one.             *)
LEMMA HoldsBefore ==
  ASSUME NEW c, NEW known, NEW i \in Numbers, NEW v, NEW t, Holds(known, c, i + 1, v, t)
  PROVE  Sets(c[i], v, t) \/ (Holds(known, c, i, v, t) /\ ~Kills(c[i], v, t))
<1>1. PICK j \in 0..i :
        /\ IF j = 0 THEN <<v, t>> \in known ELSE Sets(c[j], v, t)
        /\ \A k \in (j + 1)..i : ~Kills(c[k], v, t)
  <2>1. (i + 1) - 1 = i
    BY DEF Numbers
  <2> QED BY <2>1 DEF Holds
<1>2. CASE j = i
  BY <1>1, <1>2 DEF Numbers
<1>3. CASE j # i
  <2>1. j \in 0..(i - 1) /\ i \in (j + 1)..i /\ \A k \in (j + 1)..(i - 1) : k \in (j + 1)..i
    BY <1>1, <1>3 DEF Numbers
  <2>2. ~Kills(c[i], v, t)
    BY <1>1, <2>1
  <2>3. Holds(known, c, i, v, t)
    <3>1. \A k \in (j + 1)..(i - 1) : ~Kills(c[k], v, t)
      BY <1>1, <2>1
    <3> QED BY <1>1, <2>1, <3>1 DEF Holds
  <2> QED BY <2>2, <2>3
<1> QED BY <1>2, <1>3

(* At the beginning only what is known holds.                               *)
LEMMA HoldsAtBeginning ==
  ASSUME NEW c, NEW known, NEW v, NEW t, Holds(known, c, 1, v, t)
  PROVE  <<v, t>> \in known
<1>1. \A j \in 0..(1 - 1) : j = 0
  OBVIOUS
<1> QED BY <1>1 DEF Holds

(* Where the compiled function is.                                          *)
LEMMA WhereItIs ==
  ASSUME Invariant, phase = "run"
  PROVE  /\ at.block \in DOMAIN blocks /\ at.index \in Numbers /\ at = [block |-> at.block, index |-> at.index]
         /\ at.block \in DOMAIN code /\ Len(code) = Len(blocks) /\ DOMAIN code = DOMAIN blocks
         /\ code[at.block] \in Instructions /\ caches[at.block] \in Cache
         /\ at.index \in 1..Len(code[at.block]) /\ Len(code[at.block]) \in Nat
         /\ Current \in IRInstruction
         /\ Ends(code[at.block], blocks[at.block].next)
         /\ AreSound(KnownBefore(at.block), code[at.block], count)
         /\ IsTrueAtEnd(KnownBefore(at.block), code[at.block], caches[at.block], count)
<1>1. at \in [block : DOMAIN blocks, index : Numbers] /\ Len(code) = Len(blocks) /\ at.index \in DOMAIN code[at.block]
  BY DEF Invariant, RunPart
<1>2. at.block \in DOMAIN blocks /\ at.index \in Numbers /\ at = [block |-> at.block, index |-> at.index]
  BY <1>1
<1>3. IRPart /\ blocks \in Seq(BasicBlock)
  BY DEF Invariant, CfgPart, AreConnected
<1>4. DOMAIN blocks = 1..Len(blocks) /\ DOMAIN code = 1..Len(code)
  BY <1>3, CachesAre
<1>5. at.block \in 1..Len(code) /\ DOMAIN code = DOMAIN blocks
  BY <1>1, <1>2, <1>4
<1>6. code[at.block] \in Instructions /\ caches[at.block] \in Cache
  BY <1>3, <1>5, CachesAre
<1>7. PICK c : c = code[at.block]
  OBVIOUS
<1>8. DOMAIN c = 1..Len(c) /\ Len(c) \in Nat /\ \A i \in DOMAIN c : c[i] \in IRInstruction
  BY <1>6, <1>7, InstructionsInARow
<1>9. Current \in IRInstruction
  BY <1>1, <1>7, <1>8 DEF Current
<1>10. /\ Ends(code[at.block], blocks[at.block].next)
       /\ AreSound(KnownBefore(at.block), code[at.block], count)
       /\ IsTrueAtEnd(KnownBefore(at.block), code[at.block], caches[at.block], count)
  BY <1>3, <1>4, <1>5 DEF IRPart
<1> QED BY <1>1, <1>2, <1>4, <1>5, <1>6, <1>7, <1>8, <1>9, <1>10

(* An instruction that does not end the block is followed by another one.   *)
LEMMA GoesToNextInstruction ==
  ASSUME Invariant, phase = "run", OnlyRunning, at' = NextInstruction,
         Current.op \notin Jumps \cup {"return"},
         fresh' \subseteq Variables \X (0..(count - 1)),
         \A v \in Variables, t \in 0..(count - 1) :
           Sets(Current, v, t) \/ (<<v, t>> \in fresh /\ ~Kills(Current, v, t)) => <<v, t>> \in fresh'
  PROVE  RunPart'
<1>1. PICK b, i : b = at.block /\ i = at.index
  OBVIOUS
<1>2. /\ b \in DOMAIN blocks /\ i \in Numbers /\ at = [block |-> b, index |-> i] /\ Len(code) = Len(blocks)
      /\ i \in 1..Len(code[b]) /\ Len(code[b]) \in Nat /\ Ends(code[b], blocks[b].next)
      /\ Current = code[b][i] /\ code[b] \in Instructions
  BY <1>1, WhereItIs DEF Current
<1>3. at' = [block |-> b, index |-> i + 1]
  BY <1>2 DEF NextInstruction
<1>4. i # Len(code[b])
  BY <1>2 DEF Ends
<1>5. i + 1 \in DOMAIN code[b] /\ i + 1 \in Numbers
  <2>1. DOMAIN code[b] = 1..Len(code[b])
    BY <1>2, InstructionsInARow
  <2> QED BY <1>2, <1>4, <2>1 DEF Numbers
<1>6. /\ phase' = phase /\ blocks' = blocks /\ code' = code /\ caches' = caches /\ count' = count
  BY DEF OnlyRunning, cfg_vars, ir_vars
<1>7. KnownBefore(b)' = KnownBefore(b)
  BY <1>6 DEF KnownBefore
<1>8. ASSUME NEW v \in Variables, NEW t \in 0..(count - 1), Holds(KnownBefore(b), code[b], i + 1, v, t)
      PROVE  <<v, t>> \in fresh'
  <2>1. Sets(Current, v, t) \/ (Holds(KnownBefore(b), code[b], i, v, t) /\ ~Kills(Current, v, t))
    BY <1>2, <1>8, HoldsBefore
  <2>2. Holds(KnownBefore(b), code[b], i, v, t) => <<v, t>> \in fresh
    BY <1>1 DEF Invariant, RunPart
  <2> QED BY <2>1, <2>2
<1>9. at'.block = b /\ at'.index = i + 1
  BY <1>3
<1>10. \A v \in Variables, t \in 0..(count' - 1) :
         Holds(KnownBefore(b)', code'[b], i + 1, v, t) => <<v, t>> \in fresh'
  BY <1>6, <1>7, <1>8
<1>11. (at \in [block : DOMAIN blocks, index : Numbers])'
  BY <1>2, <1>3, <1>5, <1>6
<1>12. KnownBefore(at.block)' = KnownBefore(b)'
  BY <1>9 DEF KnownBefore
<1> QED BY <1>2, <1>5, <1>6, <1>9, <1>10, <1>11, <1>12 DEF RunPart

(* Where it jumps, every entry of the cache that is handed on is true.      *)
LEMMA TrueAtJump ==
  ASSUME Invariant, phase = "run", Current.op \in Jumps
  PROVE  /\ at.index = Len(code[at.block])
         /\ \A v \in DOMAIN caches[at.block] : <<v, caches[at.block][v]>> \in fresh
<1>1. PICK b, i : b = at.block /\ i = at.index
  OBVIOUS
<1>2. PICK c, cache : c = code[b] /\ cache = caches[b]
  OBVIOUS
<1>3. /\ i \in Numbers /\ i \in 1..Len(c) /\ Current = c[i] /\ cache \in Cache
      /\ Ends(c, blocks[b].next) /\ IsTrueAtEnd(KnownBefore(b), c, cache, count)
      /\ c \in Instructions
  BY <1>1, <1>2, WhereItIs DEF Current
<1>4. i = Len(c)
  <2>1. DOMAIN c = 1..Len(c)
    BY <1>3, InstructionsInARow
  <2> QED BY <1>3, <2>1 DEF Ends
<1>5. ASSUME NEW v \in DOMAIN cache PROVE <<v, cache[v]>> \in fresh
  <2>1. cache[v] \in 0..(count - 1) /\ Holds(KnownBefore(b), c, i + 1, v, cache[v]) /\ v \in Variables
    BY <1>3, <1>4 DEF IsTrueAtEnd, Cache
  <2>2. ~Sets(c[i], v, cache[v])
    BY <1>3 DEF Sets, Jumps
  <2>3. Holds(KnownBefore(b), c, i, v, cache[v])
    BY <1>3, <2>1, <2>2, HoldsBefore
  <2> QED BY <1>1, <1>2, <2>1, <2>3 DEF Invariant, RunPart
<1> QED BY <1>1, <1>2, <1>4, <1>5

(* The compiled function goes to the beginning of a block.                  *)
LEMMA BeginsToRun ==
  ASSUME NEW c \in DOMAIN blocks, CfgPart, IRPart, Len(code) = Len(blocks),
         blocks' = blocks, code' = code, caches' = caches, count' = count,
         at' = FirstOf(c), fresh' \subseteq Variables \X (0..(count - 1)),
         \A pair \in KnownBefore(c) : pair \in fresh'
  PROVE  RunPart'
<1>1. blocks \in Seq(BasicBlock) /\ DOMAIN blocks = 1..Len(blocks) /\ c \in DOMAIN code
  <2>1. blocks \in Seq(BasicBlock)
    BY DEF CfgPart, AreConnected
  <2>2. DOMAIN blocks = 1..Len(blocks)
    BY <2>1
  <2> QED BY <2>1, <2>2, CachesAre
<1>2. at'.block = c /\ at'.index = 1 /\ 1 \in Numbers /\ at' = [block |-> c, index |-> 1]
  BY DEF FirstOf, Numbers
<1>3. 1 \in DOMAIN code[c]
  <2>1. Ends(code[c], blocks[c].next) /\ code[c] \in Instructions
    BY <1>1, CachesAre DEF IRPart
  <2>2. DOMAIN code[c] = 1..Len(code[c]) /\ Len(code[c]) \in Nat
    BY <2>1, InstructionsInARow
  <2> QED BY <2>1, <2>2 DEF Ends
<1>4. KnownBefore(c)' = KnownBefore(c)
  BY DEF KnownBefore
<1>5. KnownBefore(at.block)' = KnownBefore(c)'
  BY <1>2 DEF KnownBefore
<1>6. \A v \in Variables, t \in 0..(count' - 1) :
        Holds(KnownBefore(c)', code'[c], 1, v, t) => <<v, t>> \in fresh'
  BY <1>4, HoldsAtBeginning
<1>7. (at \in [block : DOMAIN blocks, index : Numbers])'
  BY <1>2
<1>8. Len(code') = Len(blocks') /\ 1 \in DOMAIN code'[c] /\ fresh' \subseteq Variables \X (0..(count' - 1))
  BY <1>3
<1> QED BY <1>2, <1>5, <1>6, <1>7, <1>8 DEF RunPart

(* A jump leads to a block that knows this one, or knows nothing.           *)
LEMMA GoesToNextBlock ==
  ASSUME Invariant, phase = "run", OnlyRunning, Current.op \in Jumps,
         NEW c \in ToSet(blocks[at.block].next), at' = FirstOf(c), fresh' = fresh
  PROVE  RunPart'
<1>1. PICK b : b = at.block
  OBVIOUS
<1>2. /\ b \in DOMAIN blocks /\ Len(code) = Len(blocks) /\ CfgPart /\ IRPart
      /\ fresh \subseteq Variables \X (0..(count - 1))
  BY <1>1, WhereItIs DEF Invariant, RunPart
<1>3. c \in DOMAIN blocks /\ (HasNoCache(blocks, c) \/ b \in ToSet(blocks[c].previous))
  BY <1>1, <1>2 DEF CfgPart, AreConnected, KnowsPrevious
<1>4. ASSUME NEW pair \in KnownBefore(c) PROVE pair \in fresh
  <2>1. ToSet(blocks[c].previous) # {} /\ ~\E p \in ToSet(blocks[c].previous) : p >= c
    BY DEF KnownBefore
  <2>2. b \in ToSet(blocks[c].previous)
    <3>1. ASSUME HasNoCache(blocks, c) PROVE FALSE
      <4>1. CASE blocks[c].previous = <<>>
        BY <1>2, <1>3, <2>1, <4>1, PreviousAre
      <4>2. CASE \E i \in DOMAIN blocks[c].previous : blocks[c].previous[i] >= c
        BY <2>1, <4>2 DEF ToSet
      <4> QED BY <3>1, <4>1, <4>2 DEF HasNoCache
    <3> QED BY <1>3, <3>1
  <2>3. pair \in Pairs(caches[b])
    <3>1. KnownBefore(c) = {q \in Pairs(caches[blocks[c].previous[1]]) :
                              \A p \in ToSet(blocks[c].previous) : q \in Pairs(caches[p])}
      BY <2>1 DEF KnownBefore
    <3> QED BY <2>2, <3>1
  <2>4. PICK v \in DOMAIN caches[b] : pair = <<v, caches[b][v]>>
    BY <2>3 DEF Pairs
  <2> QED BY <1>1, <2>4, TrueAtJump
<1>5. blocks' = blocks /\ code' = code /\ caches' = caches /\ count' = count
  BY DEF OnlyRunning, cfg_vars, ir_vars
<1> QED BY <1>2, <1>3, <1>4, <1>5, BeginsToRun

(* The kinds of instructions.                                               *)
LEMMA RunKeepsTheCache ==
  ASSUME Invariant, RunStep
  PROVE  RunPart'
<1> USE DEF RunStep
<1>0. /\ phase = "run" /\ fresh \subseteq Variables \X (0..(count - 1))
      /\ at \in [block : DOMAIN blocks, index : Numbers]
  BY DEF SourceJumps, RunLoad, RunSilent, RunGoto, RunRead, RunCall, RunStore, RunTest, RunReturn,
         Running, Does, Invariant, RunPart
<1>1. CASE SourceJumps
  <2>1. /\ at' = at /\ fresh' = fresh /\ phase' = phase /\ blocks' = blocks /\ code' = code
        /\ caches' = caches /\ count' = count
    BY <1>1 DEF SourceJumps, OnlyRunning, cfg_vars, ir_vars
  <2> QED BY <2>1 DEF Invariant, RunPart, KnownBefore
<1>2. CASE RunLoad
  <2>1. PICK x : x = Current
    OBVIOUS
  <2>2. /\ x.op = "load" /\ OnlyRunning /\ at' = NextInstruction
        /\ fresh' = {f \in fresh : f[2] # x.to[1]} \cup {<<x.variable, x.to[1]>>}
    BY <1>2, <2>1 DEF RunLoad
  <2>3. x.variable \in Variables /\ x.to[1] \in 0..(count - 1)
    <3>1. at.index \in DOMAIN code[at.block] /\ AreSound(KnownBefore(at.block), code[at.block], count)
      BY <1>0, WhereItIs, InstructionsInARow
    <3> QED BY <2>1, <2>2, <3>1 DEF AreSound, Current
  <2>4. fresh' \subseteq Variables \X (0..(count - 1))
    BY <1>0, <2>2, <2>3
  <2>5. ASSUME NEW v \in Variables, NEW t \in 0..(count - 1),
               Sets(x, v, t) \/ (<<v, t>> \in fresh /\ ~Kills(x, v, t))
        PROVE  <<v, t>> \in fresh'
    <3>1. CASE Sets(x, v, t)
      BY <2>2, <3>1 DEF Sets
    <3>2. CASE <<v, t>> \in fresh /\ ~Kills(x, v, t)
      <4>1. x.to[1] # t \/ x.variable = v
        BY <2>2, <3>2 DEF Kills
      <4> QED BY <2>2, <3>2, <4>1
    <3> QED BY <2>5, <3>1, <3>2
  <2>6. x.op \notin Jumps \cup {"return"}
    BY <2>2 DEF Jumps
  <2> QED BY <1>0, <2>1, <2>2, <2>4, <2>5, <2>6, GoesToNextInstruction
<1>3. CASE RunSilent \/ RunRead
  <2>1. PICK x : x = Current
    OBVIOUS
  <2>2. (x.op \in Silent \/ x.op = "read") /\ OnlyRunning /\ at' = NextInstruction /\ fresh' = fresh
    BY <1>3, <2>1 DEF RunSilent, RunRead, Does, Kind
  <2>3. \A v, t : ~Sets(x, v, t)
    BY <2>2 DEF Sets, Silent
  <2>4. x.op \notin Jumps \cup {"return"}
    BY <2>2 DEF Jumps, Silent
  <2> QED BY <1>0, <2>1, <2>2, <2>3, <2>4, GoesToNextInstruction
<1>4. CASE RunCall
  <2>1. PICK x : x = Current
    OBVIOUS
  <2>2. x.op \in Calling /\ OnlyRunning /\ at' = NextInstruction /\ fresh' = fresh \ Stale(Shared)
    BY <1>4, <2>1 DEF RunCall, Does, Kind, Calling
  <2>3. \A v, t : Sets(x, v, t) \/ (<<v, t>> \in fresh /\ ~Kills(x, v, t)) => <<v, t>> \in fresh'
    <3>1. \A v, t : ~Sets(x, v, t) /\ (~Kills(x, v, t) => v \notin Shared)
      BY <2>2 DEF Sets, Kills, Calling
    <3>2. \A v, t : <<v, t>> \in fresh /\ v \notin Shared => <<v, t>> \in fresh'
      BY <2>2 DEF Stale
    <3> QED BY <3>1, <3>2
  <2>4. x.op \notin Jumps \cup {"return"} /\ fresh' \subseteq Variables \X (0..(count - 1))
    BY <1>0, <2>2 DEF Jumps, Calling
  <2> QED BY <1>0, <2>1, <2>2, <2>3, <2>4, GoesToNextInstruction
<1>5. CASE RunStore
  <2>1. PICK x : x = Current
    OBVIOUS
  <2>2. x.op = "store" /\ OnlyRunning /\ at' = NextInstruction /\ fresh' = fresh \ Stale({x.variable})
    BY <1>5, <2>1 DEF RunStore, Does, Kind
  <2>3. \A v, t : Sets(x, v, t) \/ (<<v, t>> \in fresh /\ ~Kills(x, v, t)) => <<v, t>> \in fresh'
    <3>1. \A v, t : ~Sets(x, v, t) /\ (~Kills(x, v, t) => v # x.variable)
      BY <2>2 DEF Sets, Kills, Calling
    <3>2. \A v, t : <<v, t>> \in fresh /\ v # x.variable => <<v, t>> \in fresh'
      BY <2>2 DEF Stale
    <3> QED BY <3>1, <3>2
  <2>4. x.op \notin Jumps \cup {"return"} /\ fresh' \subseteq Variables \X (0..(count - 1))
    BY <1>0, <2>2 DEF Jumps
  <2> QED BY <1>0, <2>1, <2>2, <2>3, <2>4, GoesToNextInstruction
<1>6. CASE RunGoto
  <2>1. Current.op = "goto" /\ OnlyRunning /\ fresh' = fresh
    BY <1>6 DEF RunGoto
  <2>2. Current.op \in Jumps /\ Len(blocks[at.block].next) = 1
    <3>1. Ends(code[at.block], blocks[at.block].next) /\ at.index \in DOMAIN code[at.block]
      BY <1>0, WhereItIs, InstructionsInARow
    <3> QED BY <2>1, <3>1 DEF Ends, Current, Jumps
  <2>3. blocks[at.block].next[1] \in ToSet(blocks[at.block].next)
    <3>1. 1 \in DOMAIN blocks[at.block].next
      BY <1>0, <2>2, PreviousAre DEF Invariant, BasicBlock
    <3> QED BY <3>1 DEF ToSet
  <2>4. at' = FirstOf(blocks[at.block].next[1])
    BY <1>6 DEF RunGoto
  <2> QED BY <1>0, <2>1, <2>2, <2>3, <2>4, GoesToNextBlock
<1>7. CASE RunTest
  <2>1. Current.op = "test" /\ OnlyRunning /\ fresh' = fresh
    BY <1>7 DEF RunTest, Does, Kind
  <2>2. Current.op \in Jumps /\ Len(blocks[at.block].next) = 2
    <3>1. Ends(code[at.block], blocks[at.block].next) /\ at.index \in DOMAIN code[at.block]
      BY <1>0, WhereItIs, InstructionsInARow
    <3> QED BY <2>1, <3>1 DEF Ends, Current, Jumps
  <2>3. /\ blocks[at.block].next[1] \in ToSet(blocks[at.block].next)
        /\ blocks[at.block].next[2] \in ToSet(blocks[at.block].next)
    <3>1. 1 \in DOMAIN blocks[at.block].next /\ 2 \in DOMAIN blocks[at.block].next
      BY <1>0, <2>2, PreviousAre DEF Invariant, BasicBlock
    <3> QED BY <3>1 DEF ToSet
  <2>4. PICK outcome \in BOOLEAN : at' = FirstOf(blocks[at.block].next[IF outcome THEN 1 ELSE 2])
    BY <1>7 DEF RunTest
  <2>5. PICK c : c = blocks[at.block].next[IF outcome THEN 1 ELSE 2]
    OBVIOUS
  <2>6. c \in ToSet(blocks[at.block].next) /\ at' = FirstOf(c)
    BY <2>3, <2>4, <2>5
  <2> QED BY <1>0, <2>1, <2>2, <2>6, GoesToNextBlock
<1>8. CASE RunReturn
  <2>1. /\ at' = at /\ fresh' = fresh /\ phase' = "done" /\ blocks' = blocks /\ count' = count
    BY <1>8 DEF RunReturn, cfg_vars, ir_vars, run_vars
  <2> QED BY <1>0, <2>1 DEF RunPart
<1> QED BY <1>1, <1>2, <1>3, <1>4, <1>5, <1>6, <1>7, <1>8

-----------------------------------------------------------------------------
(* The basic blocks are created.                                            *)

(* What the program is made of, if the cache is to be right.                *)
LEMMA ProgramParts ==
  ASSUME IsCacheable
  PROVE  /\ ~LoopsInBranches /\ Assignments \subseteq Steps /\ Conditions \subseteq Steps
         /\ Calls \subseteq Called /\ Targets \subseteq Variables \cup {ELEMENT}
<1> DEFINE T == Variables \cup {CALL}
<1>1. /\ ~LoopsInBranches /\ Targets \subseteq Variables \cup {ELEMENT}
      /\ Assignments \subseteq Seq(T) /\ Conditions \subseteq Seq(T)
      /\ Calls \subseteq [kind : {"call"}, callee : Seq(Variables), parameters : Seq(Seq(T))]
      /\ \A steps \in StepsOfProgram : Shared = {} \/ CALL \notin ToSet(steps)
  BY ControlFlowAssumption DEF IsCacheable, CallsAreStatements
<1> HIDE DEF T
<1>2. \A steps \in StepsOfProgram : steps \in Seq(T) => steps \in Steps
  BY <1>1 DEF Steps, T
<1>3. Assignments \subseteq Steps /\ Conditions \subseteq Steps
  BY <1>1, <1>2 DEF StepsOfProgram
<1>4. ASSUME NEW call \in Calls PROVE call \in Called
  <2>1. PICK p : p = call.parameters
    OBVIOUS
  <2>2. p \in Seq(Seq(T)) /\ call.kind = "call" /\ call.callee \in Seq(Variables)
    BY <1>1, <2>1
  <2>3. \A i \in DOMAIN p : p[i] \in StepsOfProgram
    BY <2>1 DEF StepsOfProgram, ToSet
  <2>4. \A i \in DOMAIN p : p[i] \in Steps
    <3>1. PICK U : U = Seq(T)
      OBVIOUS
    <3>2. \A i \in DOMAIN p : p[i] \in U
      BY <2>2, <3>1
    <3> QED BY <1>2, <2>3, <3>1, <3>2
  <2>5. p \in Seq(Steps)
    <3>1. PICK U : U = Steps
      OBVIOUS
    <3>2. p = [i \in 1..Len(p) |-> p[i]] /\ Len(p) \in Nat
      BY <2>2
    <3>3. p \in Seq(U)
      BY <2>4, <3>1, <3>2
    <3> QED BY <3>1, <3>3
  <2>6. call \in [kind : {"call"}, callee : Seq(Variables), parameters : Seq(Seq(T))]
    BY <1>1
  <2>7. call = [kind |-> call.kind, callee |-> call.callee, parameters |-> call.parameters]
    BY <2>6
  <2> HIDE DEF Steps
  <2> QED BY <2>1, <2>2, <2>5, <2>7 DEF Called
<1> QED BY <1>1, <1>3, <1>4

(* Only next is set, to blocks that have no cache, or nothing of it at all. *)
LEMMA NextIsSet ==
  ASSUME NEW bs, AreConnected(bs), NEW r \in Seq(BasicBlock), Len(r) = Len(bs),
         \A c \in DOMAIN bs : r[c].previous = bs[c].previous,
         \A b \in DOMAIN bs :
           /\ Len(r[b].next) \in 0..2 /\ ToSet(r[b].next) \subseteq DOMAIN bs
           /\ \A c \in ToSet(r[b].next) : c \in ToSet(bs[b].next) \/ HasNoCache(bs, c)
  PROVE  AreConnected(r) /\ \A c \in DOMAIN bs : HasNoCache(bs, c) => HasNoCache(r, c)
<1>1. DOMAIN r = DOMAIN bs /\ r # <<>>
  <2>1. PICK B : B = BasicBlock
    OBVIOUS
  <2>2. bs \in Seq(B) /\ r \in Seq(B) /\ bs # <<>>
    BY <2>1 DEF AreConnected
  <2> QED BY ONLY <2>2, Len(r) = Len(bs)
<1>2. \A c \in DOMAIN bs : HasNoCache(bs, c) => HasNoCache(r, c)
  BY DEF HasNoCache
<1>3. ASSUME NEW c \in DOMAIN r, ~HasNoCache(r, c), NEW b \in DOMAIN r, c \in ToSet(r[b].next)
      PROVE  b \in ToSet(r[c].previous)
  <2>1. c \in ToSet(bs[b].next) /\ ~HasNoCache(bs, c)
    BY <1>1, <1>2, <1>3
  <2>2. b \in ToSet(bs[c].previous)
    BY <1>1, <2>1 DEF AreConnected, KnowsPrevious
  <2> QED BY <1>1, <2>2
<1> QED BY <1>1, <1>2, <1>3 DEF AreConnected, KnowsPrevious

(* A block of the sequence is changed.                                      *)
LEMMA BlocksAre ==
  ASSUME NEW bs \in Seq(BasicBlock)
  PROVE  /\ Len(bs) \in Nat /\ DOMAIN bs = 1..Len(bs)
         /\ \A b \in DOMAIN bs :
              /\ bs[b] \in BasicBlock /\ b \in Numbers
              /\ bs[b].statements \in Seq(Statement) /\ bs[b].next \in Seq(Numbers)
              /\ bs[b].condition \in Steps /\ bs[b].previous \in Seq(Numbers)
              /\ bs[b].has_returned \in BOOLEAN
<1>1. Len(bs) \in Nat /\ DOMAIN bs = 1..Len(bs) /\ \A b \in DOMAIN bs : bs[b] \in BasicBlock
  <2> HIDE DEF BasicBlock
  <2> QED OBVIOUS
<1>2. \A b \in DOMAIN bs : b \in Numbers
  BY <1>1 DEF Numbers
<1> QED BY <1>1, <1>2 DEF BasicBlock

(* The items around the visitor.                                            *)
LEMMA AroundAre ==
  ASSUME CfgPart
  PROVE  /\ Around \in Seq(If \cup While) /\ Len(Around) = Len(open) /\ Len(open) \in Nat
         /\ DOMAIN open = 1..Len(open)
         /\ \A i \in 1..Len(open) :
              /\ open[i] \in DOMAIN source /\ Around[i] = source[open[i]] /\ Around[i] \in If \cup While
<1>1. open \in Seq(DOMAIN source) /\ \A i \in DOMAIN open : source[open[i]] \in If \cup While
  BY DEF CfgPart, OpenItems
<1>2. PICK T, D : T = If \cup While /\ D = DOMAIN source
  OBVIOUS
<1>3. Len(open) \in Nat /\ DOMAIN open = 1..Len(open) /\ \A i \in 1..Len(open) : open[i] \in D /\ source[open[i]] \in T
  BY <1>1, <1>2
<1>4. Around \in Seq(T) /\ Len(Around) = Len(open) /\ \A i \in 1..Len(open) : Around[i] = source[open[i]]
  BY <1>3 DEF Around
<1> QED BY <1>2, <1>3, <1>4

(* No element of the stack but those of if statements is NONE.              *)
LEMMA TopIsNotNone ==
  ASSUME NEW items, NEW stack, Len(items) \in Nat, Len(stack) \in Nat, HasDepths(items, stack)
  PROVE  Top(stack) # NONE /\ Len(stack) \in 1..Len(stack)
<1>1. PICK depth : IsDepth(depth, items, stack)
  BY DEF HasDepths
<1>2. PICK n, m : n = Len(items) /\ m = Len(stack)
  OBVIOUS
<1>3. /\ n \in Nat /\ m \in Nat /\ depth \in [1..(n + 1) -> 1..m] /\ depth[n + 1] = m
      /\ \A i \in 1..n : depth[i + 1] = depth[i] + Width(items[i])
      /\ \A j \in 1..m : stack[j] = NONE => \E i \in 1..n : j = depth[i] + 1 /\ IsNoneOf(items[i])
  BY <1>1, <1>2 DEF IsDepth
<1>4. m \in 1..m
  BY <1>3
<1>5. stack[m] # NONE
  <2>1. SUFFICES ASSUME NEW i \in 1..n, m = depth[i] + 1, IsNoneOf(items[i]) PROVE FALSE
    BY <1>3, <1>4
  <2>2. depth[i + 1] = depth[i] + 2
    BY <1>3, <2>1 DEF IsNoneOf, Width
  <2>3. i + 1 \in 1..(n + 1) /\ i \in 1..(n + 1)
    BY <1>3
  <2>4. depth[i + 1] \in 1..m /\ depth[i] \in 1..m
    BY <1>3, <2>3
  <2> QED BY <1>3, <2>1, <2>2, <2>4
<1> QED BY <1>2, <1>4, <1>5 DEF Top

(* The current block is one of the blocks.                                  *)
LEMMA CurrentIsBlock ==
  ASSUME CfgPart
  PROVE  /\ CurrentBlock \in DOMAIN blocks /\ Len(basic_block_stack) \in Numbers
         /\ blocks \in Seq(BasicBlock)
<1>1. /\ blocks \in Seq(BasicBlock) /\ basic_block_stack \in Seq(0..Len(blocks))
      /\ HasDepths(Around, basic_block_stack)
  BY DEF CfgPart, AreConnected, BlockStack
<1>2. Len(Around) \in Nat /\ Len(basic_block_stack) \in Nat /\ Len(blocks) \in Nat /\ DOMAIN blocks = 1..Len(blocks)
  BY <1>1, AroundAre, BlocksAre
<1>3. CurrentBlock # NONE /\ Len(basic_block_stack) \in 1..Len(basic_block_stack)
  BY <1>1, <1>2, TopIsNotNone DEF CurrentBlock
<1>4. CurrentBlock \in 0..Len(blocks)
  BY <1>1, <1>3 DEF CurrentBlock, Top
<1> QED BY <1>1, <1>2, <1>3, <1>4 DEF NONE, Numbers

(* A statement is added to the current block.                               *)
LEMMA StatementIsAdded ==
  ASSUME CfgPart, NEW bs, AreConnected(bs), Len(bs) = Len(blocks), NEW statement \in Statement,
         NEW r, r = AddStatement(bs, statement)
  PROVE  /\ AreConnected(r) /\ Len(r) = Len(bs)
         /\ \A c \in DOMAIN bs : HasNoCache(bs, c) => HasNoCache(r, c)
<1>1. PICK b : b = CurrentBlock
  OBVIOUS
<1>2. bs \in Seq(BasicBlock) /\ DOMAIN bs = 1..Len(bs) /\ b \in DOMAIN bs
  <2>1. bs \in Seq(BasicBlock)
    BY DEF AreConnected
  <2> QED BY <1>1, <2>1, BlocksAre, CurrentIsBlock
<1>3. CASE bs[b].has_returned
  <2>1. r = bs
    BY <1>1, <1>3 DEF AddStatement
  <2> QED BY <2>1
<1>4. CASE ~bs[b].has_returned
  <2>1. PICK block : block = [bs[b] EXCEPT !.statements = Append(@, statement)]
    OBVIOUS
  <2>2. r = [bs EXCEPT ![b] = block]
    BY <1>1, <1>4, <2>1 DEF AddStatement
  <2>3. block \in BasicBlock /\ block.next = bs[b].next /\ block.previous = bs[b].previous
    <3>1. Append(bs[b].statements, statement) \in Seq(Statement)
      <4>1. bs[b].statements \in Seq(Statement)
        BY <1>2, BlocksAre
      <4> HIDE DEF Statement
      <4> QED BY <4>1
    <3>2. bs[b] \in BasicBlock
      BY <1>2, BlocksAre
    <3> QED BY <2>1, <3>1, <3>2 DEF BasicBlock
  <2>4. /\ r \in Seq(BasicBlock) /\ Len(r) = Len(bs)
        /\ \A c \in DOMAIN bs : r[c].previous = bs[c].previous /\ r[c].next = bs[c].next
    <3> HIDE DEF BasicBlock
    <3>1. /\ r \in Seq(BasicBlock) /\ Len(r) = Len(bs) /\ r[b] = block
          /\ \A c \in DOMAIN bs : c # b => r[c] = bs[c]
      BY <1>2, <2>2, <2>3, ElementReplaced
    <3> QED BY <2>3, <3>1
  <2>5. \A c \in DOMAIN bs : Len(bs[c].next) \in 0..2 /\ ToSet(bs[c].next) \subseteq DOMAIN bs
    BY DEF AreConnected
  <2> QED BY <2>4, <2>5, NextIsSet
<1> QED BY <1>3, <1>4

(* A block leads to other blocks, which record it.                          *)
RecordsEdges(bs, r, from, N) ==
  /\ r \in Seq(BasicBlock) /\ Len(r) = Len(bs) /\ from \in DOMAIN bs /\ N \in SUBSET DOMAIN bs
  /\ Len(r[from].next) \in 0..2 /\ ToSet(r[from].next) = N
  /\ \A b \in DOMAIN bs : b # from => r[b].next = bs[b].next
  /\ \A c \in DOMAIN bs :
       r[c].previous = IF c \in N THEN Append(bs[c].previous, from) ELSE bs[c].previous
  /\ \A c \in N : KnowsPrevious(bs, c) \/ from >= c

(* Then they are still connected.                                           *)
LEMMA EdgesAreRecorded ==
  ASSUME NEW bs, AreConnected(bs), NEW r, NEW from, NEW N, RecordsEdges(bs, r, from, N)
  PROVE  /\ AreConnected(r)
         /\ \A c \in DOMAIN bs : KnowsPrevious(bs, c) => KnowsPrevious(r, c)
         /\ \A c \in DOMAIN bs : HasNoCache(bs, c) /\ (c \notin N \/ from >= c) => HasNoCache(r, c)
<1>0. /\ r \in Seq(BasicBlock) /\ Len(r) = Len(bs) /\ from \in DOMAIN bs /\ N \in SUBSET DOMAIN bs
      /\ Len(r[from].next) \in 0..2 /\ ToSet(r[from].next) = N
      /\ \A b \in DOMAIN bs : b # from => r[b].next = bs[b].next
      /\ \A c \in DOMAIN bs :
           r[c].previous = IF c \in N THEN Append(bs[c].previous, from) ELSE bs[c].previous
      /\ \A c \in N : KnowsPrevious(bs, c) \/ from >= c
  BY DEF RecordsEdges
<1>1. DOMAIN r = DOMAIN bs /\ r # <<>> /\ bs \in Seq(BasicBlock)
  <2>1. PICK B : B = BasicBlock
    OBVIOUS
  <2>2. bs \in Seq(B) /\ r \in Seq(B) /\ bs # <<>>
    BY <1>0, <2>1 DEF AreConnected
  <2>3. DOMAIN r = DOMAIN bs /\ r # <<>>
    BY ONLY <1>0, <2>2
  <2> QED BY <1>0, <2>1, <2>2, <2>3
<1>2. ASSUME NEW c \in DOMAIN bs
      PROVE  /\ \A i \in DOMAIN bs[c].previous : i \in DOMAIN r[c].previous /\ r[c].previous[i] = bs[c].previous[i]
             /\ c \in N => \E i \in DOMAIN r[c].previous : r[c].previous[i] = from
             /\ c \notin N => r[c].previous = bs[c].previous
  <2>1. CASE c \in N
    <3>1. PICK s : s = bs[c].previous
      OBVIOUS
    <3>2. s \in Seq(Numbers) /\ from \in Numbers /\ r[c].previous = Append(s, from)
      BY <1>0, <1>1, <2>1, <3>1, BlocksAre
    <3>3. /\ DOMAIN Append(s, from) = DOMAIN s \cup {Len(s) + 1}
          /\ Append(s, from)[Len(s) + 1] = from
          /\ \A i \in DOMAIN s : Append(s, from)[i] = s[i]
      BY <1>0, <3>2, ElementAppended
    <3> QED BY <1>0, <2>1, <3>1, <3>2, <3>3
  <2>2. CASE c \notin N
    BY <1>0, <2>2
  <2> QED BY <1>0, <2>1, <2>2
<1>3. ASSUME NEW c \in DOMAIN bs
      PROVE  /\ ToSet(bs[c].previous) \subseteq ToSet(r[c].previous)
             /\ c \in N => from \in ToSet(r[c].previous)
  BY <1>0, <1>2 DEF ToSet
<1>4. ASSUME NEW c \in DOMAIN bs, KnowsPrevious(bs, c) PROVE KnowsPrevious(r, c)
  <2>1. SUFFICES ASSUME NEW b \in DOMAIN r, c \in ToSet(r[b].next) PROVE b \in ToSet(r[c].previous)
    BY DEF KnowsPrevious
  <2>2. CASE b = from
    BY <1>0, <1>3, <2>1, <2>2
  <2>3. CASE b # from
    <3>1. c \in ToSet(bs[b].next)
      BY <1>0, <1>1, <2>1, <2>3
    <3> QED BY <1>0, <1>1, <1>3, <1>4, <3>1 DEF KnowsPrevious
  <2> QED BY <1>0, <2>2, <2>3
<1>5. ASSUME NEW c \in DOMAIN bs, c \in N, from >= c PROVE HasNoCache(r, c)
  BY <1>0, <1>2, <1>5 DEF HasNoCache
<1>6. ASSUME NEW c \in DOMAIN bs, HasNoCache(bs, c), c \notin N PROVE HasNoCache(r, c)
  BY <1>0, <1>2, <1>6 DEF HasNoCache
<1>7. ASSUME NEW b \in DOMAIN r PROVE Len(r[b].next) \in 0..2 /\ ToSet(r[b].next) \subseteq DOMAIN r
  <2>1. CASE b = from
    BY <1>0, <1>1, <2>1
  <2>2. CASE b # from
    BY <1>0, <1>1, <2>2 DEF AreConnected
  <2> QED BY <1>0, <2>1, <2>2
<1>8. ASSUME NEW c \in DOMAIN r PROVE HasNoCache(r, c) \/ KnowsPrevious(r, c)
  <2>1. HasNoCache(bs, c) \/ KnowsPrevious(bs, c)
    BY <1>0, <1>1 DEF AreConnected
  <2> QED BY <1>0, <1>1, <1>4, <1>5, <1>6, <2>1
<1>9. AreConnected(r)
  BY <1>0, <1>1, <1>7, <1>8 DEF AreConnected
<1> QED BY <1>0, <1>4, <1>5, <1>6, <1>9

(* New blocks lead nowhere, and nothing leads to them.                      *)
NewBlocks(k) == [i \in 1..k |-> NewBasicBlock]

(* They can be added to blocks that are connected.                          *)
LEMMA NewBlocksAreConnected ==
  ASSUME NEW bs, AreConnected(bs), NEW k \in Nat, NEW r, r = bs \o NewBlocks(k)
  PROVE  /\ AreConnected(r) /\ r \in Seq(BasicBlock)
         /\ Len(r) = Len(bs) + k /\ DOMAIN r = 1..(Len(bs) + k) /\ Len(bs) \in Nat /\ DOMAIN bs = 1..Len(bs)
         /\ \A c \in DOMAIN bs : c \in DOMAIN r /\ r[c] = bs[c] /\ (HasNoCache(bs, c) => HasNoCache(r, c))
         /\ \A c \in (Len(bs) + 1)..(Len(bs) + k) :
              c \in DOMAIN r /\ r[c] = NewBasicBlock /\ KnowsPrevious(r, c) /\ HasNoCache(r, c)
<1>1. PICK new : new = NewBlocks(k)
  OBVIOUS
<1>2. NewBasicBlock \in BasicBlock
  <2>1. <<>> \in Steps
    <3>1. ToSet(<<>>) = {}
      BY DEF ToSet
    <3> QED BY <3>1 DEF Steps
  <2>2. <<>> \in Seq(Statement) /\ <<>> \in Seq(Numbers)
    <3> HIDE DEF Statement
    <3> QED OBVIOUS
  <2> QED BY <2>1, <2>2 DEF NewBasicBlock, BasicBlock
<1>3. /\ new \in Seq(BasicBlock) /\ Len(new) = k /\ DOMAIN new = 1..k
      /\ \A i \in 1..k : new[i] = NewBasicBlock
  <2> HIDE DEF BasicBlock, NewBasicBlock
  <2> QED BY <1>1, <1>2 DEF NewBlocks
<1>4. bs \in Seq(BasicBlock) /\ bs # <<>> /\ Len(bs) \in Nat /\ DOMAIN bs = 1..Len(bs)
  BY BlocksAre DEF AreConnected
<1>5. /\ r \in Seq(BasicBlock) /\ Len(r) = Len(bs) + k /\ DOMAIN r = 1..(Len(bs) + k)
      /\ \A c \in DOMAIN bs : c \in DOMAIN r /\ r[c] = bs[c]
      /\ \A i \in 1..k : r[Len(bs) + i] = NewBasicBlock
  <2>1. /\ bs \o new \in Seq(BasicBlock) /\ Len(bs \o new) = Len(bs) + Len(new)
        /\ DOMAIN (bs \o new) = 1..(Len(bs) + Len(new))
        /\ \A i \in DOMAIN bs : (bs \o new)[i] = bs[i]
        /\ \A i \in DOMAIN new : (bs \o new)[Len(bs) + i] = new[i]
    <3> HIDE DEF BasicBlock
    <3> QED BY <1>3, <1>4, ElementsInARow, ZenonT(40)
  <2>2. /\ r \in Seq(BasicBlock) /\ Len(r) = Len(bs) + Len(new)
        /\ DOMAIN r = 1..(Len(bs) + Len(new))
        /\ \A i \in DOMAIN bs : r[i] = bs[i]
        /\ \A i \in DOMAIN new : r[Len(bs) + i] = new[i]
    BY <1>1, <2>1
  <2> HIDE DEF BasicBlock, NewBasicBlock
  <2>3. \A i \in 1..k : r[Len(bs) + i] = NewBasicBlock
    BY <1>3, <2>2
  <2>4. \A c \in DOMAIN bs : c \in DOMAIN r /\ r[c] = bs[c]
    BY <1>3, <1>4, <2>2
  <2> QED BY <1>3, <2>2, <2>3, <2>4
<1>6. \A c \in (Len(bs) + 1)..(Len(bs) + k) : c \in DOMAIN r /\ r[c] = NewBasicBlock /\ c \notin DOMAIN bs
  <2>1. ASSUME NEW c \in (Len(bs) + 1)..(Len(bs) + k)
        PROVE  c \in DOMAIN r /\ r[c] = NewBasicBlock /\ c \notin DOMAIN bs
    <3>1. c - Len(bs) \in 1..k /\ Len(bs) + (c - Len(bs)) = c /\ c \in 1..(Len(bs) + k) /\ c \notin 1..Len(bs)
      BY <1>4
    <3> QED BY <1>4, <1>5, <3>1
  <2> QED BY <2>1
<1>7. \A c \in DOMAIN r : c \in DOMAIN bs \/ c \in (Len(bs) + 1)..(Len(bs) + k)
  BY <1>4, <1>5
<1>8. NewBasicBlock.next = <<>> /\ NewBasicBlock.previous = <<>> /\ ToSet(<<>>) = {} /\ Len(<<>>) \in 0..2
  BY DEF NewBasicBlock, ToSet
<1>9. ASSUME NEW b \in DOMAIN r, NEW c \in ToSet(r[b].next)
      PROVE  b \in DOMAIN bs /\ c \in ToSet(bs[b].next) /\ c \in DOMAIN bs
  <2>1. b \in DOMAIN bs
    BY <1>6, <1>7, <1>8, <1>9
  <2> QED BY <1>5, <2>1 DEF AreConnected
<1>10. ASSUME NEW c \in (Len(bs) + 1)..(Len(bs) + k) PROVE KnowsPrevious(r, c) /\ HasNoCache(r, c)
  BY <1>6, <1>8, <1>9 DEF KnowsPrevious, HasNoCache
<1>11. ASSUME NEW c \in DOMAIN bs
       PROVE  /\ HasNoCache(bs, c) => HasNoCache(r, c)
              /\ KnowsPrevious(bs, c) => KnowsPrevious(r, c)
  BY <1>5, <1>9 DEF KnowsPrevious, HasNoCache
<1>12. AreConnected(r)
  <2>1. ASSUME NEW b \in DOMAIN r PROVE Len(r[b].next) \in 0..2 /\ ToSet(r[b].next) \subseteq DOMAIN r
    <3>1. CASE b \in DOMAIN bs
      BY <1>5, <3>1 DEF AreConnected
    <3>2. CASE b \in (Len(bs) + 1)..(Len(bs) + k)
      BY <1>6, <1>8, <3>2
    <3> QED BY <1>7, <3>1, <3>2
  <2>2. ASSUME NEW c \in DOMAIN r PROVE HasNoCache(r, c) \/ KnowsPrevious(r, c)
    BY <1>7, <1>10, <1>11 DEF AreConnected
  <2>3. r # <<>>
    <3>1. Len(r) # 0 /\ Len(<<>>) = 0
      <4>1. PICK B : B = BasicBlock
        OBVIOUS
      <4>2. bs \in Seq(B) /\ bs # <<>>
        BY <1>4, <4>1
      <4>3. Len(bs) # 0
        BY ONLY <4>2
      <4> QED BY <1>4, <1>5, <4>3
    <3> QED BY <3>1
  <2> QED BY <1>5, <2>1, <2>2, <2>3 DEF AreConnected
<1> QED BY <1>4, <1>5, <1>6, <1>10, <1>11, <1>12

(* The next block of a block is set, or that there is none.                 *)
LEMMA NextBlockIsSet ==
  ASSUME NEW bs, AreConnected(bs), NEW from \in DOMAIN bs, NEW to \in DOMAIN bs, from # to,
         KnowsPrevious(bs, to) \/ from >= to, NEW r, r = SetNext(bs, from, to)
  PROVE  /\ AreConnected(r) /\ r \in Seq(BasicBlock) /\ Len(r) = Len(bs) /\ DOMAIN r = DOMAIN bs
         /\ \A c \in DOMAIN bs : KnowsPrevious(bs, c) => KnowsPrevious(r, c)
         /\ \A c \in DOMAIN bs : HasNoCache(bs, c) /\ (c # to \/ from >= c) => HasNoCache(r, c)
<1>1. /\ bs \in Seq(BasicBlock) /\ bs[from] \in BasicBlock /\ bs[to] \in BasicBlock /\ DOMAIN bs = 1..Len(bs)
      /\ from \in Numbers /\ to \in Numbers /\ bs[to].previous \in Seq(Numbers)
  BY BlocksAre DEF AreConnected
<1>2. PICK B1, B2 : /\ B1 = [bs[from] EXCEPT !.next = <<to>>]
                    /\ B2 = [bs[to] EXCEPT !.previous = Append(@, from)]
  OBVIOUS
<1>3. /\ B1 \in BasicBlock /\ B1.next = <<to>> /\ B1.previous = bs[from].previous
      /\ B2 \in BasicBlock /\ B2.next = bs[to].next /\ B2.previous = Append(bs[to].previous, from)
  <2>1. <<to>> \in Seq(Numbers) /\ Append(bs[to].previous, from) \in Seq(Numbers)
    <3> HIDE DEF Numbers
    <3> QED BY <1>1
  <2> QED BY <1>1, <1>2, <2>1 DEF BasicBlock
<1>4. r = [[bs EXCEPT ![from] = B1] EXCEPT ![to] = B2]
  <2>1. to # NONE
    BY <1>1 DEF Numbers, NONE
  <2> HIDE DEF BasicBlock
  <2> QED BY <1>1, <1>2, <2>1 DEF SetNext
<1>5. PICK q : q = [bs EXCEPT ![from] = B1]
  OBVIOUS
<1>6. /\ q \in Seq(BasicBlock) /\ Len(q) = Len(bs) /\ DOMAIN q = DOMAIN bs /\ q[from] = B1
      /\ \A c \in DOMAIN bs : c # from => q[c] = bs[c]
  <2> HIDE DEF BasicBlock
  <2> QED BY <1>1, <1>3, <1>5, ElementReplaced
<1>7. /\ r \in Seq(BasicBlock) /\ Len(r) = Len(q) /\ DOMAIN r = DOMAIN q /\ r[to] = B2
      /\ \A c \in DOMAIN q : c # to => r[c] = q[c]
  <2>1. r = [q EXCEPT ![to] = B2] /\ to \in DOMAIN q
    BY <1>4, <1>5, <1>6
  <2> HIDE DEF BasicBlock
  <2> QED BY <1>3, <1>6, <2>1, ElementReplaced
<1>8. r[from] = B1 /\ \A c \in DOMAIN bs : c # from /\ c # to => r[c] = bs[c]
  BY <1>6, <1>7
<1>9. ToSet(<<to>>) = {to} /\ Len(<<to>>) \in 0..2
  BY DEF ToSet
<1>0. PICK N : N = {to}
  OBVIOUS
<1>10. N \in SUBSET DOMAIN bs /\ Len(r[from].next) \in 0..2 /\ ToSet(r[from].next) = N
  BY <1>0, <1>3, <1>8, <1>9
<1>11. \A b \in DOMAIN bs : b # from => r[b].next = bs[b].next
  BY <1>3, <1>7, <1>8
<1>12. \A c \in DOMAIN bs :
         r[c].previous = IF c \in N THEN Append(bs[c].previous, from) ELSE bs[c].previous
  BY <1>0, <1>3, <1>7, <1>8
<1>13. \A c \in N : KnowsPrevious(bs, c) \/ from >= c
  BY <1>0
<1>14. Len(r) = Len(bs) /\ DOMAIN r = DOMAIN bs /\ r \in Seq(BasicBlock)
  BY <1>6, <1>7
<1>15. /\ AreConnected(r)
       /\ \A c \in DOMAIN bs : KnowsPrevious(bs, c) => KnowsPrevious(r, c)
       /\ \A c \in DOMAIN bs : HasNoCache(bs, c) /\ (c \notin N \/ from >= c) => HasNoCache(r, c)
  <2>1. RecordsEdges(bs, r, from, N)
    BY <1>10, <1>11, <1>12, <1>13, <1>14 DEF RecordsEdges
  <2> QED BY <2>1, EdgesAreRecorded
<1> QED BY <1>0, <1>14, <1>15

(* A block is set to lead nowhere.                                          *)
LEMMA NoNextBlockIsSet ==
  ASSUME NEW bs, AreConnected(bs), NEW from \in DOMAIN bs, NEW r, r = SetNext(bs, from, NONE)
  PROVE  /\ AreConnected(r) /\ r \in Seq(BasicBlock) /\ Len(r) = Len(bs) /\ DOMAIN r = DOMAIN bs
         /\ \A c \in DOMAIN bs : KnowsPrevious(bs, c) => KnowsPrevious(r, c)
         /\ \A c \in DOMAIN bs : HasNoCache(bs, c) => HasNoCache(r, c)
<1>1. bs \in Seq(BasicBlock) /\ bs[from] \in BasicBlock
  BY BlocksAre DEF AreConnected
<1>2. PICK B1 : B1 = [bs[from] EXCEPT !.next = <<>>]
  OBVIOUS
<1>3. B1 \in BasicBlock /\ B1.next = <<>> /\ B1.previous = bs[from].previous
  <2>1. <<>> \in Seq(Numbers)
    OBVIOUS
  <2> QED BY <1>1, <1>2, <2>1 DEF BasicBlock
<1>4. r = [bs EXCEPT ![from] = B1]
  <2> HIDE DEF BasicBlock
  <2> QED BY <1>1, <1>2 DEF SetNext
<1>5. /\ r \in Seq(BasicBlock) /\ Len(r) = Len(bs) /\ DOMAIN r = DOMAIN bs /\ r[from] = B1
      /\ \A c \in DOMAIN bs : c # from => r[c] = bs[c]
  <2> HIDE DEF BasicBlock
  <2> QED BY <1>1, <1>3, <1>4, ElementReplaced
<1>6. ToSet(<<>>) = {} /\ Len(<<>>) \in 0..2
  BY DEF ToSet
<1>0. PICK N : N = {}
  OBVIOUS
<1>7. N \in SUBSET DOMAIN bs /\ Len(r[from].next) \in 0..2 /\ ToSet(r[from].next) = N
  BY <1>0, <1>3, <1>5, <1>6
<1>8. /\ \A b \in DOMAIN bs : b # from => r[b].next = bs[b].next
      /\ \A c \in DOMAIN bs : r[c].previous = IF c \in N THEN Append(bs[c].previous, from) ELSE bs[c].previous
      /\ \A c \in N : KnowsPrevious(bs, c) \/ from >= c
  BY <1>0, <1>3, <1>5
<1>9. /\ AreConnected(r)
      /\ \A c \in DOMAIN bs : KnowsPrevious(bs, c) => KnowsPrevious(r, c)
      /\ \A c \in DOMAIN bs : HasNoCache(bs, c) /\ (c \notin N \/ from >= c) => HasNoCache(r, c)
  <2>1. RecordsEdges(bs, r, from, N)
    BY <1>5, <1>7, <1>8 DEF RecordsEdges
  <2> QED BY <2>1, EdgesAreRecorded
<1> QED BY <1>0, <1>5, <1>9

(* A block branches to two others.                                          *)
LEMMA BranchIsSet ==
  ASSUME NEW bs, AreConnected(bs), NEW from \in DOMAIN bs, NEW t \in DOMAIN bs, NEW f \in DOMAIN bs,
         from # t, from # f, t # f, KnowsPrevious(bs, t), KnowsPrevious(bs, f), NEW steps \in Steps,
         NEW r, r = SetNextBranch(bs, from, steps, t, f)
  PROVE  /\ AreConnected(r) /\ r \in Seq(BasicBlock) /\ Len(r) = Len(bs) /\ DOMAIN r = DOMAIN bs
         /\ \A c \in DOMAIN bs : HasNoCache(bs, c) /\ c # t /\ c # f => HasNoCache(r, c)
<1>1. /\ bs \in Seq(BasicBlock) /\ bs[from] \in BasicBlock /\ bs[t] \in BasicBlock /\ bs[f] \in BasicBlock
      /\ from \in Numbers /\ t \in Numbers /\ f \in Numbers
      /\ bs[t].previous \in Seq(Numbers) /\ bs[f].previous \in Seq(Numbers)
  BY BlocksAre DEF AreConnected
<1>2. PICK B1, B2, B3 :
        /\ B1 = [bs[from] EXCEPT !.next = <<t, f>>, !.condition = steps]
        /\ B2 = [bs[t] EXCEPT !.previous = Append(@, from)]
        /\ B3 = [bs[f] EXCEPT !.previous = Append(@, from)]
  OBVIOUS
<1>3. /\ B1 \in BasicBlock /\ B1.next = <<t, f>> /\ B1.previous = bs[from].previous
      /\ B2 \in BasicBlock /\ B2.next = bs[t].next /\ B2.previous = Append(bs[t].previous, from)
      /\ B3 \in BasicBlock /\ B3.next = bs[f].next /\ B3.previous = Append(bs[f].previous, from)
  <2>1. /\ <<t, f>> \in Seq(Numbers) /\ Append(bs[t].previous, from) \in Seq(Numbers)
        /\ Append(bs[f].previous, from) \in Seq(Numbers)
    <3> HIDE DEF Numbers
    <3> QED BY <1>1
  <2>2. B1 \in BasicBlock /\ B1.next = <<t, f>> /\ B1.previous = bs[from].previous
    BY <1>1, <1>2, <2>1 DEF BasicBlock
  <2>3. B2 \in BasicBlock /\ B2.next = bs[t].next /\ B2.previous = Append(bs[t].previous, from)
    BY <1>1, <1>2, <2>1 DEF BasicBlock
  <2>4. B3 \in BasicBlock /\ B3.next = bs[f].next /\ B3.previous = Append(bs[f].previous, from)
    BY <1>1, <1>2, <2>1 DEF BasicBlock
  <2> QED BY <2>2, <2>3, <2>4
<1>4. r = [[[bs EXCEPT ![from] = B1] EXCEPT ![t] = B2] EXCEPT ![f] = B3]
  <2> HIDE DEF BasicBlock
  <2> QED BY <1>1, <1>2 DEF SetNextBranch
<1>5. PICK q : q = [bs EXCEPT ![from] = B1]
  OBVIOUS
<1>6. /\ q \in Seq(BasicBlock) /\ Len(q) = Len(bs) /\ DOMAIN q = DOMAIN bs /\ q[from] = B1
      /\ \A c \in DOMAIN bs : c # from => q[c] = bs[c]
  <2> HIDE DEF BasicBlock
  <2> QED BY <1>1, <1>3, <1>5, ElementReplaced
<1>7. PICK p : p = [q EXCEPT ![t] = B2]
  OBVIOUS
<1>8. /\ p \in Seq(BasicBlock) /\ Len(p) = Len(q) /\ DOMAIN p = DOMAIN q /\ p[t] = B2
      /\ \A c \in DOMAIN q : c # t => p[c] = q[c]
  <2> HIDE DEF BasicBlock
  <2> QED BY <1>3, <1>6, <1>7, ElementReplaced
<1>9. /\ r \in Seq(BasicBlock) /\ Len(r) = Len(p) /\ DOMAIN r = DOMAIN p /\ r[f] = B3
      /\ \A c \in DOMAIN p : c # f => r[c] = p[c]
  <2>1. r = [p EXCEPT ![f] = B3] /\ f \in DOMAIN p
    BY <1>4, <1>5, <1>6, <1>7, <1>8
  <2> HIDE DEF BasicBlock
  <2> QED BY <1>3, <1>8, <2>1, ElementReplaced
<1>10. /\ r[from] = B1 /\ r[t] = B2 /\ r[f] = B3
       /\ \A c \in DOMAIN bs : c # from /\ c # t /\ c # f => r[c] = bs[c]
       /\ Len(r) = Len(bs) /\ DOMAIN r = DOMAIN bs /\ r \in Seq(BasicBlock)
  BY <1>6, <1>8, <1>9
<1>11. ToSet(<<t, f>>) = {t, f} /\ Len(<<t, f>>) \in 0..2
  <2>1. DOMAIN <<t, f>> = {1, 2} /\ <<t, f>>[1] = t /\ <<t, f>>[2] = f /\ Len(<<t, f>>) = 2
    OBVIOUS
  <2> QED BY <2>1 DEF ToSet
<1>0. PICK N : N = {t, f}
  OBVIOUS
<1>12. N \in SUBSET DOMAIN bs /\ Len(r[from].next) \in 0..2 /\ ToSet(r[from].next) = N
  BY <1>0, <1>3, <1>10, <1>11
<1>13. \A b \in DOMAIN bs : b # from => r[b].next = bs[b].next
  BY <1>3, <1>10
<1>14. \A c \in DOMAIN bs :
         r[c].previous = IF c \in N THEN Append(bs[c].previous, from) ELSE bs[c].previous
  BY <1>0, <1>3, <1>10
<1>15. \A c \in N : KnowsPrevious(bs, c) \/ from >= c
  BY <1>0
<1>16. /\ AreConnected(r)
       /\ \A c \in DOMAIN bs : HasNoCache(bs, c) /\ (c \notin N \/ from >= c) => HasNoCache(r, c)
  <2>1. RecordsEdges(bs, r, from, N)
    BY <1>10, <1>12, <1>13, <1>14, <1>15 DEF RecordsEdges
  <2> QED BY <2>1, EdgesAreRecorded
<1> QED BY <1>0, <1>10, <1>16

-----------------------------------------------------------------------------
(* The stack of blocks, when an item is opened, when the innermost one is   *)
(* closed, and when it goes from its then body to its else body.            *)
LEMMA DepthsPushed ==
  ASSUME NEW items, NEW stack, Len(items) \in Nat, Len(stack) \in Nat, HasDepths(items, stack),
         NEW item, NEW items2, Len(items2) = Len(items) + 1, items2[Len(items) + 1] = item,
         \A i \in 1..Len(items) : items2[i] = items[i],
         NEW stack2, Len(stack2) = Len(stack) + Width(item),
         \A j \in 1..(Len(stack) - 1) : stack2[j] = stack[j],
         \A j \in Len(stack)..Len(stack2) : stack2[j] = NONE => j = Len(stack) + 1 /\ IsNoneOf(item)
  PROVE  HasDepths(items2, stack2)
<1>1. PICK depth : IsDepth(depth, items, stack)
  BY DEF HasDepths
<1>2. PICK n, m, w : n = Len(items) /\ m = Len(stack) /\ w = Width(item)
  OBVIOUS
<1>3. /\ n \in Nat /\ m \in Nat /\ depth \in [1..(n + 1) -> 1..m] /\ depth[n + 1] = m /\ depth[1] = 1
      /\ \A i, j \in 1..(n + 1) : i < j => depth[i] < depth[j]
      /\ \A i \in 1..n : depth[i + 1] = depth[i] + Width(items[i])
      /\ \A j \in 1..m : stack[j] = NONE => \E i \in 1..n : j = depth[i] + 1 /\ IsNoneOf(items[i])
  BY <1>1, <1>2 DEF IsDepth
<1>4. w \in {1, 2} /\ n + 2 \in 1..(n + 2) /\ n + 1 \in 1..(n + 1) /\ 1 \in 1..(n + 1)
  BY <1>2, <1>3 DEF Width
<1>5. Len(items2) = n + 1 /\ Len(stack2) = m + w
  BY <1>2
<1> DEFINE depth2 == [i \in 1..(n + 2) |-> IF i = n + 2 THEN m + w ELSE depth[i]]
<1>6. /\ \A i \in 1..(n + 1) : i \in 1..(n + 2) /\ depth2[i] = depth[i] /\ depth[i] \in 1..m /\ i # n + 2
      /\ depth2[n + 2] = m + w
      /\ \A i \in 1..(n + 2) : i = n + 2 \/ i \in 1..(n + 1)
  BY <1>3, <1>4
<1> HIDE DEF depth2
<1>7. depth2 \in [1..(n + 2) -> 1..(m + w)]
  <2>1. ASSUME NEW i \in 1..(n + 2) PROVE depth2[i] \in 1..(m + w)
    <3>1. m \in 1..m
      BY <1>3, <1>4
    <3>2. depth2[i] = m + w \/ depth2[i] \in 1..m
      BY <1>6
    <3> QED BY <1>3, <1>4, <3>1, <3>2, SMTT(20)
  <2> QED BY <2>1 DEF depth2
<1>8. \A i, j \in 1..(n + 2) : i < j => depth2[i] < depth2[j]
  <2>1. ASSUME NEW i \in 1..(n + 2), NEW j \in 1..(n + 2), i < j PROVE depth2[i] < depth2[j]
    <3>1. i \in 1..(n + 1)
      BY <1>3, <2>1
    <3>2. CASE j = n + 2
      BY <1>3, <1>4, <1>6, <3>1, <3>2
    <3>3. CASE j # n + 2
      BY <1>3, <1>6, <2>1, <3>1, <3>3
    <3> QED BY <3>2, <3>3
  <2> QED BY <2>1
<1>9. ASSUME NEW i \in 1..(n + 1) PROVE depth2[i + 1] = depth2[i] + Width(items2[i])
  <2>1. CASE i = n + 1
    BY <1>2, <1>3, <1>4, <1>6, <2>1
  <2>2. CASE i # n + 1
    <3>1. i \in 1..n /\ i + 1 \in 1..(n + 1) /\ i \in 1..(n + 1)
      BY <1>3, <2>2
    <3> QED BY <1>2, <1>3, <1>6, <3>1
  <2> QED BY <2>1, <2>2
<1>10. ASSUME NEW j \in 1..(m + w), stack2[j] = NONE
       PROVE  \E i \in 1..(n + 1) : j = depth2[i] + 1 /\ IsNoneOf(items2[i])
  <2>1. CASE j \in 1..(m - 1)
    <3>1. stack[j] = NONE /\ j \in 1..m
      BY <1>2, <1>3, <1>10, <2>1
    <3>2. PICK i \in 1..n : j = depth[i] + 1 /\ IsNoneOf(items[i])
      BY <1>3, <3>1
    <3>3. i \in 1..(n + 1) /\ depth2[i] = depth[i] /\ items2[i] = items[i]
      BY <1>2, <1>3, <1>6
    <3> QED BY <3>2, <3>3
  <2>2. CASE j \notin 1..(m - 1)
    <3>1. j \in Len(stack)..Len(stack2)
      BY <1>2, <1>3, <1>4, <1>5, <2>2
    <3>2. j = m + 1 /\ IsNoneOf(item)
      BY <1>2, <1>10, <3>1
    <3>3. depth2[n + 1] = m /\ items2[n + 1] = item
      BY <1>2, <1>3, <1>4, <1>6
    <3> QED BY <1>4, <3>2, <3>3
  <2> QED BY <2>1, <2>2
<1>11. depth2[1] = 1 /\ depth2[n + 2] = m + w
  BY <1>3, <1>4, <1>6
<1>12. (n + 1) + 1 = n + 2
  BY <1>3
<1>13. IsDepth(depth2, items2, stack2)
  BY <1>5, <1>7, <1>8, <1>9, <1>10, <1>11, <1>12 DEF IsDepth
<1>14. depth2 \in [1..(Len(items2) + 1) -> 1..Len(stack2)]
  BY <1>5, <1>7, <1>12
<1> QED BY <1>13, <1>14 DEF HasDepths

(* The last item is closed.                                                 *)
LEMMA DepthsPopped ==
  ASSUME NEW items, NEW stack, Len(items) \in Nat \ {0}, Len(stack) \in Nat, HasDepths(items, stack),
         NEW items2, Len(items2) = Len(items) - 1, \A i \in 1..Len(items2) : items2[i] = items[i],
         NEW stack2, Len(stack2) = Len(stack) - Width(items[Len(items)]),
         \A j \in 1..Len(stack2) : stack2[j] = stack[j]
  PROVE  HasDepths(items2, stack2)
<1>1. PICK depth : IsDepth(depth, items, stack)
  BY DEF HasDepths
<1>2. PICK n, m, w : n = Len(items) /\ m = Len(stack) /\ w = Width(items[n])
  OBVIOUS
<1>3. /\ n \in Nat \ {0} /\ m \in Nat /\ depth \in [1..(n + 1) -> 1..m] /\ depth[n + 1] = m /\ depth[1] = 1
      /\ \A i, j \in 1..(n + 1) : i < j => depth[i] < depth[j]
      /\ \A i \in 1..n : depth[i + 1] = depth[i] + Width(items[i])
      /\ \A j \in 1..m : stack[j] = NONE => \E i \in 1..n : j = depth[i] + 1 /\ IsNoneOf(items[i])
  BY <1>1, <1>2 DEF IsDepth
<1>4. w \in {1, 2} /\ n \in 1..n /\ n \in 1..(n + 1) /\ 1 \in 1..n
  BY <1>2, <1>3 DEF Width
<1>5. Len(items2) = n - 1 /\ Len(stack2) = m - w
  BY <1>2
<1>6. depth[n] = m - w /\ depth[n] \in 1..m
  BY <1>2, <1>3, <1>4
<1> DEFINE depth2 == [i \in 1..n |-> depth[i]]
<1>7. /\ \A i \in 1..n : i \in 1..(n + 1) /\ depth2[i] = depth[i] /\ depth[i] \in 1..(m - w)
      /\ DOMAIN depth2 = 1..n
  <2>1. ASSUME NEW i \in 1..n PROVE depth[i] \in 1..(m - w)
    <3>1. i \in 1..(n + 1) /\ (i = n \/ i < n)
      BY <1>3
    <3>2. depth[i] \in 1..m /\ (i < n => depth[i] < depth[n])
      BY <1>3, <1>4, <3>1
    <3> QED BY <1>3, <1>4, <1>6, <3>1, <3>2, SMTT(20)
  <2> QED BY <1>3, <2>1
<1>8. depth2 \in [1..n -> 1..(m - w)]
  BY <1>7
<1> HIDE DEF depth2
<1>9. \A i, j \in 1..n : i < j => depth2[i] < depth2[j]
  BY <1>3, <1>7
<1>10. ASSUME NEW i \in 1..(n - 1) PROVE depth2[i + 1] = depth2[i] + Width(items2[i])
  <2>1. i \in 1..n /\ i + 1 \in 1..n /\ i \in 1..Len(items2)
    BY <1>3, <1>5
  <2> QED BY <1>3, <1>7, <2>1
<1>11. ASSUME NEW j \in 1..(m - w), stack2[j] = NONE
       PROVE  \E i \in 1..(n - 1) : j = depth2[i] + 1 /\ IsNoneOf(items2[i])
  <2>1. stack[j] = NONE /\ j \in 1..m
    BY <1>3, <1>4, <1>5, <1>11
  <2>2. PICK i \in 1..n : j = depth[i] + 1 /\ IsNoneOf(items[i])
    BY <1>3, <2>1
  <2>3. i # n
    BY <1>3, <1>6, <2>2
  <2>4. i \in 1..(n - 1) /\ i \in 1..Len(items2)
    BY <1>3, <1>5, <2>3
  <2> QED BY <1>7, <2>2, <2>4
<1>12. depth2[1] = 1 /\ depth2[n] = m - w /\ (n - 1) + 1 = n
  BY <1>3, <1>4, <1>6, <1>7
<1>13. IsDepth(depth2, items2, stack2)
  BY <1>5, <1>8, <1>9, <1>10, <1>11, <1>12 DEF IsDepth
<1>14. depth2 \in [1..(Len(items2) + 1) -> 1..Len(stack2)]
  BY <1>5, <1>8, <1>12
<1> QED BY <1>13, <1>14 DEF HasDepths

(* The last item changes to its else body: one block is popped.             *)
LEMMA DepthsReplaced ==
  ASSUME NEW items, NEW stack, Len(items) \in Nat \ {0}, Len(stack) \in Nat, HasDepths(items, stack),
         IsInThenBody(items[Len(items)]), ~IsNoneOf(items[Len(items)]),
         NEW items2, Len(items2) = Len(items), \A i \in 1..(Len(items) - 1) : items2[i] = items[i],
         ~IsInThenBody(items2[Len(items)]),
         NEW stack2, Len(stack2) = Len(stack) - 1, \A j \in 1..Len(stack2) : stack2[j] = stack[j]
  PROVE  HasDepths(items2, stack2)
<1>1. PICK depth : IsDepth(depth, items, stack)
  BY DEF HasDepths
<1>2. PICK n, m : n = Len(items) /\ m = Len(stack)
  OBVIOUS
<1>3. /\ n \in Nat \ {0} /\ m \in Nat /\ depth \in [1..(n + 1) -> 1..m] /\ depth[n + 1] = m /\ depth[1] = 1
      /\ \A i, j \in 1..(n + 1) : i < j => depth[i] < depth[j]
      /\ \A i \in 1..n : depth[i + 1] = depth[i] + Width(items[i])
      /\ \A j \in 1..m : stack[j] = NONE => \E i \in 1..n : j = depth[i] + 1 /\ IsNoneOf(items[i])
  BY <1>1, <1>2 DEF IsDepth
<1>4. Width(items[n]) = 2 /\ Width(items2[n]) = 1 /\ n \in 1..n /\ n \in 1..(n + 1) /\ 1 \in 1..n
  BY <1>2, <1>3 DEF Width
<1>5. Len(items2) = n /\ Len(stack2) = m - 1
  BY <1>2
<1>6. depth[n] = m - 2 /\ depth[n] \in 1..m
  <2>1. depth[n + 1] = depth[n] + Width(items[n]) /\ depth[n] \in 1..m
    BY <1>3, <1>4
  <2> QED BY <1>3, <1>4, <2>1
<1> DEFINE depth2 == [i \in 1..(n + 1) |-> IF i = n + 1 THEN m - 1 ELSE depth[i]]
<1>7. /\ \A i \in 1..n : i \in 1..(n + 1) /\ depth2[i] = depth[i] /\ depth[i] \in 1..(m - 2)
      /\ depth2[n + 1] = m - 1
      /\ \A i \in 1..(n + 1) : i = n + 1 \/ i \in 1..n
  <2>1. ASSUME NEW i \in 1..n PROVE depth[i] \in 1..(m - 2) /\ i # n + 1
    <3>1. i \in 1..(n + 1) /\ (i = n \/ i < n)
      BY <1>3
    <3>2. depth[i] \in 1..m /\ (i < n => depth[i] < depth[n])
      BY <1>3, <1>4, <3>1
    <3> QED BY <1>3, <1>6, <3>1, <3>2
  <2> QED BY <1>3, <2>1
<1> HIDE DEF depth2
<1>8. depth2 \in [1..(n + 1) -> 1..(m - 1)]
  <2>1. \A i \in 1..(n + 1) : depth2[i] \in 1..(m - 1)
    BY <1>3, <1>6, <1>7, SMTT(20)
  <2> QED BY <2>1 DEF depth2
<1>9. \A i, j \in 1..(n + 1) : i < j => depth2[i] < depth2[j]
  <2>1. ASSUME NEW i \in 1..(n + 1), NEW j \in 1..(n + 1), i < j PROVE depth2[i] < depth2[j]
    <3>1. i \in 1..n
      BY <1>3, <2>1
    <3>2. CASE j = n + 1
      BY <1>3, <1>7, <3>1, <3>2
    <3>3. CASE j # n + 1
      BY <1>3, <1>7, <2>1, <3>1, <3>3
    <3> QED BY <3>2, <3>3
  <2> QED BY <2>1
<1>10. ASSUME NEW i \in 1..n PROVE depth2[i + 1] = depth2[i] + Width(items2[i])
  <2>1. CASE i = n
    BY <1>3, <1>4, <1>6, <1>7, <2>1
  <2>2. CASE i # n
    <3>1. i \in 1..(Len(items) - 1) /\ i + 1 \in 1..n
      BY <1>2, <1>3, <2>2
    <3> QED BY <1>3, <1>7, <3>1
  <2> QED BY <2>1, <2>2
<1>11. ASSUME NEW j \in 1..(m - 1), stack2[j] = NONE
       PROVE  \E i \in 1..n : j = depth2[i] + 1 /\ IsNoneOf(items2[i])
  <2>1. stack[j] = NONE /\ j \in 1..m
    BY <1>3, <1>5, <1>11
  <2>2. PICK i \in 1..n : j = depth[i] + 1 /\ IsNoneOf(items[i])
    BY <1>3, <2>1
  <2>3. i # n
    BY <1>2, <2>2
  <2>4. i \in 1..(Len(items) - 1)
    BY <1>2, <1>3, <2>3
  <2> QED BY <1>7, <2>2, <2>4
<1>12. depth2[1] = 1 /\ depth2[n + 1] = m - 1
  BY <1>3, <1>4, <1>7
<1>13. IsDepth(depth2, items2, stack2)
  BY <1>5, <1>8, <1>9, <1>10, <1>11, <1>12 DEF IsDepth
<1>14. depth2 \in [1..(Len(items2) + 1) -> 1..Len(stack2)]
  BY <1>5, <1>8
<1> QED BY <1>13, <1>14 DEF HasDepths

-----------------------------------------------------------------------------
(* The visitor.                                                             *)

(* A simple statement comes last; the items around it are the same.         *)
LEMMA SimpleStatementIsVisited ==
  ASSUME CfgPart, NEW statement \in Statement, source' = Append(source, statement),
         UNCHANGED <<open, basic_block_stack, next_block_stack>>,
         AreConnected(blocks'), Len(blocks') = Len(blocks),
         \A c \in DOMAIN blocks : HasNoCache(blocks, c) => HasNoCache(blocks', c)
  PROVE  CfgPart'
<1>1. /\ source \in Seq(Items) /\ OpenItems /\ open \in Seq(DOMAIN source) /\ statement \in Items
      /\ Len(blocks) \in Nat /\ DOMAIN blocks = 1..Len(blocks)
  BY CurrentIsBlock, BlocksAre DEF CfgPart, OpenItems, Items
<1>2. /\ source' \in Seq(Items) /\ DOMAIN source \subseteq DOMAIN source'
      /\ \A i \in DOMAIN source : source'[i] = source[i]
  <2> HIDE DEF Items
  <2> QED BY <1>1, ElementAppended
<1>3. \A i \in DOMAIN open : open[i] \in DOMAIN source /\ source'[open[i]] = source[open[i]]
  BY <1>2, AroundAre
<1>4. OpenItems'
  <2>1. open' = open /\ open \in Seq(DOMAIN source')
    BY <1>1, <1>2
  <2>2. /\ \A i \in DOMAIN open : source[open[i]] \in If \cup While
        /\ \A i, j \in DOMAIN open : i < j => open[i] < open[j]
    BY <1>1 DEF OpenItems
  <2> QED BY <1>3, <2>1, <2>2 DEF OpenItems
<1>5. Around' = Around
  <2>1. \A i \in 1..Len(open) : source'[open[i]] = source[open[i]]
    BY <1>3, AroundAre
  <2> QED BY <2>1 DEF Around
<1>6. BlockStack'
  BY <1>5 DEF CfgPart, BlockStack
<1>7. NextBlocks'
  <2>1. NextBlocks
    BY DEF CfgPart
  <2>2. ASSUME NEW i \in DOMAIN open, Around[i].kind = "while"
        PROVE  HasNoCache(blocks', next_block_stack[i + 1])
    <3>1. next_block_stack[i + 1] # NONE /\ HasNoCache(blocks, next_block_stack[i + 1])
      BY <2>1, <2>2 DEF NextBlocks
    <3>2. next_block_stack[i + 1] \in 0..Len(blocks)
      <4>1. i + 1 \in 1..Len(next_block_stack) /\ next_block_stack \in Seq(0..Len(blocks))
        BY <2>1, AroundAre DEF NextBlocks
      <4> QED BY <4>1
    <3>3. next_block_stack[i + 1] \in DOMAIN blocks
      BY <1>1, <3>1, <3>2 DEF NONE
    <3> QED BY <3>1, <3>3
  <2> QED BY <1>5, <2>1, <2>2 DEF NextBlocks
<1> QED BY <1>2, <1>4, <1>6, <1>7 DEF CfgPart

(* An assignment or a call is visited.                                      *)
LEMMA StatementIsVisited ==
  ASSUME CfgPart, IsCacheable, VisitAssignment \/ VisitFunctionCall
  PROVE  CfgPart'
<1>1. PICK statement \in Statement : VisitSimpleStatement(statement)
  <2>1. CASE VisitAssignment
    <3>1. PICK target \in Targets, steps \in Assignments :
            VisitSimpleStatement([kind |-> "assign", variable |-> target, steps |-> steps])
      BY <2>1 DEF VisitAssignment
    <3>2. [kind |-> "assign", variable |-> target, steps |-> steps] \in Statement
      BY ProgramParts DEF Statement, Assigned
    <3> QED BY <3>1, <3>2
  <2>2. CASE VisitFunctionCall
    BY <2>2, ProgramParts DEF VisitFunctionCall, Statement
  <2> QED BY <2>1, <2>2
<1>2. /\ source' = Append(source, statement) /\ blocks' = AddStatement(blocks, statement)
      /\ UNCHANGED <<open, basic_block_stack, next_block_stack>>
  BY <1>1 DEF VisitSimpleStatement, Visit
<1>3. /\ AreConnected(blocks') /\ Len(blocks') = Len(blocks)
      /\ \A c \in DOMAIN blocks : HasNoCache(blocks, c) => HasNoCache(blocks', c)
  <2>1. AreConnected(blocks)
    BY DEF CfgPart
  <2> QED BY <1>2, <2>1, StatementIsAdded
<1> QED BY <1>2, <1>3, SimpleStatementIsVisited

(* A return is visited: its block leads nowhere.                            *)
LEMMA ReturnIsVisited ==
  ASSUME CfgPart, VisitReturn
  PROVE  CfgPart'
<1>1. PICK b : b = CurrentBlock
  OBVIOUS
<1>2. PICK item : item = [kind |-> "return"]
  OBVIOUS
<1>3. PICK bs : bs = [blocks EXCEPT ![b].next = <<>>]
  OBVIOUS
<1>4. PICK bs2 : bs2 = AddStatement(bs, item)
  OBVIOUS
<1>5. /\ source' = Append(source, item) /\ blocks' = [bs2 EXCEPT ![b].has_returned = TRUE]
      /\ UNCHANGED <<open, basic_block_stack, next_block_stack>>
  BY <1>1, <1>2, <1>3, <1>4 DEF VisitReturn, Visit
<1>6. item \in Statement /\ b \in DOMAIN blocks /\ blocks \in Seq(BasicBlock) /\ AreConnected(blocks)
  BY <1>1, <1>2, CurrentIsBlock DEF Statement, CfgPart
<1>7. /\ AreConnected(bs) /\ Len(bs) = Len(blocks)
      /\ \A c \in DOMAIN blocks : HasNoCache(blocks, c) => HasNoCache(bs, c)
  <2>1. PICK block : block = [blocks[b] EXCEPT !.next = <<>>]
    OBVIOUS
  <2>2. bs = [blocks EXCEPT ![b] = block]
    BY <1>3, <2>1
  <2>3. blocks[b] \in BasicBlock
    BY <1>6, BlocksAre
  <2>4. block \in BasicBlock /\ block.next = <<>> /\ block.previous = blocks[b].previous
    <3>1. <<>> \in Seq(Numbers)
      OBVIOUS
    <3> QED BY <2>1, <2>3, <3>1 DEF BasicBlock
  <2>5. /\ bs \in Seq(BasicBlock) /\ Len(bs) = Len(blocks) /\ bs[b] = block
        /\ \A c \in DOMAIN blocks : c # b => bs[c] = blocks[c]
    <3> HIDE DEF BasicBlock
    <3> QED BY <1>6, <2>2, <2>4, ElementReplaced
  <2>6. \A c \in DOMAIN blocks : bs[c].previous = blocks[c].previous
    BY <2>4, <2>5
  <2>7. ToSet(<<>>) = {} /\ Len(<<>>) \in 0..2
    BY DEF ToSet
  <2>8. ASSUME NEW a \in DOMAIN blocks
        PROVE  /\ Len(bs[a].next) \in 0..2 /\ ToSet(bs[a].next) \subseteq DOMAIN blocks
               /\ \A c \in ToSet(bs[a].next) : c \in ToSet(blocks[a].next) \/ HasNoCache(blocks, c)
    <3>1. CASE a = b
      BY <2>4, <2>5, <2>7, <3>1
    <3>2. CASE a # b
      BY <1>6, <2>5, <3>2 DEF AreConnected
    <3> QED BY <3>1, <3>2
  <2> QED BY <1>6, <2>5, <2>6, <2>8, NextIsSet
<1>8. /\ AreConnected(bs2) /\ Len(bs2) = Len(blocks)
      /\ \A c \in DOMAIN bs : HasNoCache(bs, c) => HasNoCache(bs2, c)
  BY <1>4, <1>6, <1>7, StatementIsAdded
<1>9. DOMAIN bs = DOMAIN blocks /\ DOMAIN bs2 = DOMAIN blocks /\ bs2 \in Seq(BasicBlock)
  BY <1>6, <1>7, <1>8, BlocksAre DEF AreConnected
<1>10. /\ AreConnected(blocks') /\ Len(blocks') = Len(blocks)
       /\ \A c \in DOMAIN bs2 : HasNoCache(bs2, c) => HasNoCache(blocks', c)
  <2>1. PICK block : block = [bs2[b] EXCEPT !.has_returned = TRUE]
    OBVIOUS
  <2>2. blocks' = [bs2 EXCEPT ![b] = block]
    BY <1>5, <2>1
  <2>3. bs2[b] \in BasicBlock
    BY <1>6, <1>9, BlocksAre
  <2>4. block \in BasicBlock /\ block.next = bs2[b].next /\ block.previous = bs2[b].previous
    BY <2>1, <2>3 DEF BasicBlock
  <2>5. /\ blocks' \in Seq(BasicBlock) /\ Len(blocks') = Len(bs2)
        /\ \A c \in DOMAIN bs2 : blocks'[c].previous = bs2[c].previous /\ blocks'[c].next = bs2[c].next
    <3>1. /\ blocks' \in Seq(BasicBlock) /\ Len(blocks') = Len(bs2) /\ blocks'[b] = block
          /\ \A c \in DOMAIN bs2 : c # b => blocks'[c] = bs2[c]
      <4> HIDE DEF BasicBlock
      <4> QED BY <1>6, <1>9, <2>2, <2>4, ElementReplaced
    <3> QED BY <2>4, <3>1
  <2>6. \A c \in DOMAIN bs2 : Len(bs2[c].next) \in 0..2 /\ ToSet(bs2[c].next) \subseteq DOMAIN bs2
    BY <1>8 DEF AreConnected
  <2> QED BY <1>8, <2>5, <2>6, NextIsSet
<1> QED BY <1>5, <1>6, <1>7, <1>8, <1>9, <1>10, SimpleStatementIsVisited

(* The block that comes after the current one, if there is one.             *)
LEMMA NextIsBlock ==
  ASSUME CfgPart
  PROVE  /\ Len(next_block_stack) \in Numbers /\ Top(next_block_stack) \in 0..Len(blocks)
         /\ Len(blocks) \in Nat /\ DOMAIN blocks = 1..Len(blocks)
<1>1. /\ next_block_stack \in Seq(0..Len(blocks)) /\ Len(next_block_stack) = Len(open) + 1
      /\ Len(open) \in Nat
  BY AroundAre DEF CfgPart, NextBlocks
<1>2. Len(next_block_stack) \in Numbers /\ Len(next_block_stack) \in 1..Len(next_block_stack)
  BY <1>1 DEF Numbers
<1>3. Top(next_block_stack) \in 0..Len(blocks)
  BY <1>1, <1>2 DEF Top
<1> QED BY <1>2, <1>3, CurrentIsBlock, BlocksAre

(* The blocks of an if statement.                                           *)
ElseBlock(has_else) == IF has_else THEN Len(blocks) + 2 ELSE NONE
AfterBlock(has_else) == Len(blocks) + (IF has_else THEN 3 ELSE 2)
BlocksOfIf(steps, has_else) ==
  LET if_block == Len(blocks) + 1
      else_block == ElseBlock(has_else)
      after_block == AfterBlock(has_else)
      b0 == blocks \o NewBlocks(after_block - Len(blocks))
      b1 == SetNext(b0, if_block, after_block)
      b2 == IF has_else THEN SetNext(b1, else_block, after_block) ELSE b1
      b3 == SetNext(b2, after_block, Top(next_block_stack))
  IN SetNextBranch(b3, CurrentBlock, steps, if_block, IF has_else THEN else_block ELSE after_block)

(* They are connected.                                                      *)
LEMMA BlocksOfIfAreConnected ==
  ASSUME CfgPart, NEW steps \in Steps, NEW has_else \in BOOLEAN
  PROVE  /\ AreConnected(BlocksOfIf(steps, has_else)) /\ Len(BlocksOfIf(steps, has_else)) = AfterBlock(has_else)
         /\ \A c \in DOMAIN blocks : HasNoCache(blocks, c) => HasNoCache(BlocksOfIf(steps, has_else), c)
<1>0. PICK t, e, a : t = Len(blocks) + 1 /\ e = ElseBlock(has_else) /\ a = AfterBlock(has_else)
  OBVIOUS
<1>01. PICK b0 : b0 = blocks \o NewBlocks(a - Len(blocks))
  OBVIOUS
<1>02. PICK b1 : b1 = SetNext(b0, t, a)
  OBVIOUS
<1>03. PICK b2 : b2 = IF has_else THEN SetNext(b1, e, a) ELSE b1
  OBVIOUS
<1>04. PICK b3 : b3 = SetNext(b2, a, Top(next_block_stack))
  OBVIOUS
<1>05. PICK b4 : b4 = SetNextBranch(b3, CurrentBlock, steps, t, IF has_else THEN e ELSE a)
  OBVIOUS
<1>06. BlocksOfIf(steps, has_else) = b4
  <2> HIDE DEF SetNext, SetNextBranch, Top, CurrentBlock, NewBlocks, ElseBlock, AfterBlock
  <2> QED BY <1>0, <1>01, <1>02, <1>03, <1>04, <1>05 DEF BlocksOfIf
<1>07. e = (IF has_else THEN t + 1 ELSE NONE) /\ a = t + (IF has_else THEN 2 ELSE 1) /\ Len(blocks) \in Nat
  BY <1>0, NextIsBlock DEF ElseBlock, AfterBlock
<1> DEFINE D == 1..a
<1>1. /\ Len(blocks) \in Nat /\ DOMAIN blocks = 1..Len(blocks) /\ Top(next_block_stack) \in 0..Len(blocks)
      /\ CurrentBlock \in DOMAIN blocks /\ AreConnected(blocks)
  BY NextIsBlock, CurrentIsBlock DEF CfgPart
<1>2. PICK T, b, k, f : /\ T = Top(next_block_stack) /\ b = CurrentBlock /\ k = a - Len(blocks)
                        /\ f = IF has_else THEN e ELSE a
  OBVIOUS
<1>3. /\ k \in Nat /\ a = Len(blocks) + k /\ a \in Nat /\ t \in D /\ a \in D /\ f \in D
      /\ t # a /\ t # f /\ (has_else => e \in D /\ e # a)
      /\ b \in D /\ b # t /\ b # f /\ (T = NONE \/ (T \in D /\ T # a /\ a >= T))
      /\ \A c \in DOMAIN blocks : c \in D /\ c # t /\ c # f /\ c # a /\ a >= c
      /\ t \in (Len(blocks) + 1)..(Len(blocks) + k) /\ f \in (Len(blocks) + 1)..(Len(blocks) + k)
      /\ a \in (Len(blocks) + 1)..(Len(blocks) + k)
  BY <1>0, <1>07, <1>1, <1>2 DEF NONE
<1> HIDE DEF D
<1>4. /\ AreConnected(b0) /\ Len(b0) = a /\ DOMAIN b0 = D
      /\ \A c \in DOMAIN blocks : HasNoCache(blocks, c) => HasNoCache(b0, c)
      /\ KnowsPrevious(b0, t) /\ KnowsPrevious(b0, f) /\ KnowsPrevious(b0, a)
  <2>1. AreConnected(blocks) /\ k \in Nat /\ b0 = blocks \o NewBlocks(k)
    BY <1>01, <1>1, <1>2, <1>3
  <2>2. /\ AreConnected(b0) /\ Len(b0) = Len(blocks) + k /\ DOMAIN b0 = 1..(Len(blocks) + k)
        /\ \A c \in DOMAIN blocks : HasNoCache(blocks, c) => HasNoCache(b0, c)
        /\ \A c \in (Len(blocks) + 1)..(Len(blocks) + k) : KnowsPrevious(b0, c)
    BY ONLY <2>1, NewBlocksAreConnected
  <2> QED BY <1>3, <2>2 DEF D
<1>5. /\ AreConnected(b1) /\ Len(b1) = a /\ DOMAIN b1 = D
      /\ \A c \in DOMAIN blocks : HasNoCache(blocks, c) => HasNoCache(b1, c)
      /\ KnowsPrevious(b1, t) /\ KnowsPrevious(b1, f) /\ KnowsPrevious(b1, a)
  <2>1. /\ AreConnected(b0) /\ t \in DOMAIN b0 /\ a \in DOMAIN b0 /\ t # a
        /\ (KnowsPrevious(b0, a) \/ t >= a) /\ b1 = SetNext(b0, t, a)
    BY <1>02, <1>3, <1>4
  <2>2. /\ AreConnected(b1) /\ Len(b1) = Len(b0) /\ DOMAIN b1 = DOMAIN b0
        /\ \A c \in DOMAIN b0 : KnowsPrevious(b0, c) => KnowsPrevious(b1, c)
        /\ \A c \in DOMAIN b0 : HasNoCache(b0, c) /\ (c # a \/ t >= c) => HasNoCache(b1, c)
    BY ONLY <2>1, NextBlockIsSet
  <2> QED BY <1>3, <1>4, <2>2
<1>6. /\ AreConnected(b2) /\ Len(b2) = a /\ DOMAIN b2 = D
      /\ \A c \in DOMAIN blocks : HasNoCache(blocks, c) => HasNoCache(b2, c)
      /\ KnowsPrevious(b2, t) /\ KnowsPrevious(b2, f) /\ KnowsPrevious(b2, a)
  <2>1. CASE has_else
    <3>1. /\ AreConnected(b1) /\ e \in DOMAIN b1 /\ a \in DOMAIN b1 /\ e # a
          /\ (KnowsPrevious(b1, a) \/ e >= a) /\ b2 = SetNext(b1, e, a)
      BY <1>03, <1>3, <1>5, <2>1
    <3>2. /\ AreConnected(b2) /\ Len(b2) = Len(b1) /\ DOMAIN b2 = DOMAIN b1
          /\ \A c \in DOMAIN b1 : KnowsPrevious(b1, c) => KnowsPrevious(b2, c)
          /\ \A c \in DOMAIN b1 : HasNoCache(b1, c) /\ (c # a \/ e >= c) => HasNoCache(b2, c)
      BY ONLY <3>1, NextBlockIsSet
    <3> QED BY <1>3, <1>5, <3>2
  <2>2. CASE ~has_else
    BY <1>03, <1>5, <2>2
  <2> QED BY <2>1, <2>2
<1>7. /\ AreConnected(b3) /\ Len(b3) = a /\ DOMAIN b3 = D
      /\ \A c \in DOMAIN blocks : HasNoCache(blocks, c) => HasNoCache(b3, c)
      /\ KnowsPrevious(b3, t) /\ KnowsPrevious(b3, f)
  <2>0. b3 = SetNext(b2, a, T)
    BY <1>04, <1>2
  <2>1. CASE T = NONE
    <3>1. AreConnected(b2) /\ a \in DOMAIN b2 /\ b3 = SetNext(b2, a, NONE)
      BY <1>3, <1>6, <2>0, <2>1
    <3>2. /\ AreConnected(b3) /\ Len(b3) = Len(b2) /\ DOMAIN b3 = DOMAIN b2
          /\ \A c \in DOMAIN b2 : KnowsPrevious(b2, c) => KnowsPrevious(b3, c)
          /\ \A c \in DOMAIN b2 : HasNoCache(b2, c) => HasNoCache(b3, c)
      BY ONLY <3>1, NoNextBlockIsSet
    <3> QED BY <1>3, <1>6, <3>2
  <2>2. CASE T # NONE
    <3>1. /\ AreConnected(b2) /\ a \in DOMAIN b2 /\ T \in DOMAIN b2 /\ a # T
          /\ (KnowsPrevious(b2, T) \/ a >= T) /\ b3 = SetNext(b2, a, T)
      BY <1>3, <1>6, <2>0, <2>2
    <3>2. /\ AreConnected(b3) /\ Len(b3) = Len(b2) /\ DOMAIN b3 = DOMAIN b2
          /\ \A c \in DOMAIN b2 : KnowsPrevious(b2, c) => KnowsPrevious(b3, c)
          /\ \A c \in DOMAIN b2 : HasNoCache(b2, c) /\ (c # T \/ a >= c) => HasNoCache(b3, c)
      BY ONLY <3>1, NextBlockIsSet
    <3> QED BY <1>3, <1>6, <3>2
  <2> QED BY <2>1, <2>2
<1>8. b4 = SetNextBranch(b3, b, steps, t, f)
  BY <1>05, <1>2
<1>9. /\ AreConnected(b3) /\ b \in DOMAIN b3 /\ t \in DOMAIN b3 /\ f \in DOMAIN b3
      /\ b # t /\ b # f /\ t # f /\ KnowsPrevious(b3, t) /\ KnowsPrevious(b3, f) /\ steps \in Steps
  BY <1>3, <1>7
<1>10. /\ AreConnected(b4) /\ Len(b4) = Len(b3)
       /\ \A c \in DOMAIN b3 : HasNoCache(b3, c) /\ c # t /\ c # f => HasNoCache(b4, c)
  BY ONLY <1>8, <1>9, BranchIsSet
<1> QED BY <1>0, <1>06, <1>3, <1>7, <1>10

(* An if or a while statement begins.                                       *)
LEMMA ItemIsOpened ==
  ASSUME CfgPart, NEW item \in If \cup While, source' = Append(source, item), open' = Append(open, Here),
         AreConnected(blocks'), Len(blocks') \in Nat, Len(blocks) <= Len(blocks'),
         \A c \in DOMAIN blocks : HasNoCache(blocks, c) => HasNoCache(blocks', c),
         NEW next \in 1..Len(blocks'), next_block_stack' = Append(next_block_stack, next),
         item.kind = "while" => HasNoCache(blocks', next),
         basic_block_stack' \in Seq(0..Len(blocks')),
         Len(basic_block_stack') = Len(basic_block_stack) + Width(item),
         \A j \in 1..(Len(basic_block_stack) - 1) : basic_block_stack'[j] = basic_block_stack[j],
         \A j \in Len(basic_block_stack)..Len(basic_block_stack') :
           basic_block_stack'[j] = NONE => j = Len(basic_block_stack) + 1 /\ IsNoneOf(item)
  PROVE  CfgPart'
<1>1. /\ source \in Seq(Items) /\ open \in Seq(DOMAIN source) /\ item \in Items
      /\ \A i, j \in DOMAIN open : i < j => open[i] < open[j]
      /\ NextBlocks /\ HasDepths(Around, basic_block_stack)
      /\ basic_block_stack \in Seq(0..Len(blocks)) /\ Len(blocks) \in Nat /\ DOMAIN blocks = 1..Len(blocks)
  BY NextIsBlock DEF CfgPart, OpenItems, Items, BlockStack
<1>2. PICK n : n = Len(source)
  OBVIOUS
<1>3. /\ source' \in Seq(Items) /\ DOMAIN source = 1..n /\ n \in Nat /\ Here = n + 1
      /\ DOMAIN source' = 1..(n + 1) /\ source'[n + 1] = item
      /\ \A i \in 1..n : source'[i] = source[i]
  <2> HIDE DEF Items
  <2> QED BY <1>1, <1>2, ElementAppended DEF Here
<1>4. PICK m : m = Len(open)
  OBVIOUS
<1>5. /\ m \in Nat /\ DOMAIN open = 1..m /\ open' \in Seq(1..(n + 1)) /\ DOMAIN open' = 1..(m + 1)
      /\ Len(open') = m + 1 /\ open'[m + 1] = n + 1
      /\ \A i \in 1..m : open'[i] = open[i] /\ open[i] \in 1..n
  <2>1. open \in Seq(1..n) /\ open' = Append(open, n + 1)
    BY <1>1, <1>3
  <2>2. PICK T : T = 1..(n + 1)
    OBVIOUS
  <2>3. open \in Seq(T) /\ n + 1 \in T
    BY <1>3, <2>1, <2>2
  <2>4. /\ open' \in Seq(T) /\ Len(open') = m + 1 /\ open'[m + 1] = n + 1
        /\ \A i \in DOMAIN open : open'[i] = open[i]
    BY <1>4, <2>1, <2>3, ElementAppended
  <2>5. m \in Nat /\ DOMAIN open = 1..m /\ DOMAIN open' = 1..(m + 1) /\ \A i \in 1..m : open[i] \in 1..n
    <3>1. PICK U : U = 1..n
      OBVIOUS
    <3>4. open \in Seq(U)
      BY <2>1, <3>1
    <3>2. m \in Nat /\ DOMAIN open = 1..m /\ \A i \in 1..m : open[i] \in U
      BY <1>4, <3>4
    <3>3. DOMAIN open' = 1..(m + 1)
      BY <2>4
    <3> QED BY <3>1, <3>2, <3>3
  <2> QED BY <2>2, <2>4, <2>5
<1>6. /\ Around' \in Seq(If \cup While) /\ Len(Around') = m + 1 /\ Len(Around) = m
      /\ Around'[m + 1] = item /\ \A i \in 1..m : Around'[i] = Around[i]
      /\ \A i \in 1..(m + 1) : source'[open'[i]] = Around'[i] /\ Around'[i] \in If \cup While
  <2>1. Around' = [i \in 1..(m + 1) |-> source'[open'[i]]]
    BY <1>5 DEF Around
  <2>2. \A i \in 1..m : source'[open'[i]] = Around[i] /\ Around[i] \in If \cup While
    BY ONLY CfgPart, <1>3, <1>4, <1>5, AroundAre
  <2>3. source'[open'[m + 1]] = item /\ Len(Around) = m
    BY <1>3, <1>4, <1>5, AroundAre
  <2>4. \A i \in 1..(m + 1) : i = m + 1 \/ i \in 1..m
    BY <1>5
  <2>5. \A i \in 1..(m + 1) : source'[open'[i]] \in If \cup While
    BY <2>2, <2>3, <2>4
  <2>6. m + 1 \in 1..(m + 1) /\ \A i \in 1..m : i \in 1..(m + 1)
    BY <1>5
  <2>7. PICK T : T = If \cup While
    OBVIOUS
  <2>8. Around' \in Seq(T) /\ Len(Around') = m + 1
    <3>1. PICK x, k : x = Around' /\ k = m + 1
      OBVIOUS
    <3>2. x = [i \in 1..k |-> source'[open'[i]]] /\ \A i \in 1..k : source'[open'[i]] \in T
      BY <2>1, <2>5, <2>7, <3>1
    <3>3. k \in Nat
      BY <1>5, <3>1
    <3>4. x \in [1..k -> T]
      BY <3>2
    <3>5. x \in Seq(T) /\ Len(x) = k
      BY ONLY <3>3, <3>4
    <3> QED BY <3>1, <3>5
  <2> QED BY <2>1, <2>2, <2>3, <2>5, <2>6, <2>7, <2>8
<1>7. OpenItems'
  <2>1. ASSUME NEW i \in 1..(m + 1), NEW j \in 1..(m + 1), i < j PROVE open'[i] < open'[j]
    <3>1. i \in 1..m /\ open[i] \in 1..n
      BY ONLY <1>5, <2>1, i \in 1..(m + 1), j \in 1..(m + 1)
    <3>2. CASE j = m + 1
      BY ONLY <1>3, <1>5, <3>1, <3>2
    <3>3. CASE j # m + 1
      <4>1. j \in 1..m /\ i \in DOMAIN open /\ j \in DOMAIN open
        BY <1>5, <3>1, <3>3
      <4>2. open[i] < open[j]
        BY <1>1, <2>1, <4>1
      <4> QED BY <1>5, <3>1, <4>1, <4>2
    <3> QED BY <3>2, <3>3
  <2>2. open' \in Seq(DOMAIN source') /\ DOMAIN open' = 1..(m + 1)
    BY <1>3, <1>5
  <2>3. \A i \in 1..(m + 1) : source'[open'[i]] \in If \cup While
    BY <1>6
  <2> QED BY <2>1, <2>2, <2>3 DEF OpenItems
<1>8. BlockStack'
  <2>1. PICK s, s2 : s = basic_block_stack /\ s2 = basic_block_stack'
    OBVIOUS
  <2>2. Len(s) \in Nat
    BY <1>1, <2>1
  <2>4. PICK items, items2 : items = Around /\ items2 = Around'
    OBVIOUS
  <2>5. /\ Len(items) \in Nat /\ HasDepths(items, s) /\ Len(items2) = Len(items) + 1
        /\ items2[Len(items) + 1] = item /\ \A i \in 1..Len(items) : items2[i] = items[i]
    BY <1>1, <1>5, <1>6, <2>1, <2>4
  <2>6. /\ Len(s2) = Len(s) + Width(item) /\ \A j \in 1..(Len(s) - 1) : s2[j] = s[j]
        /\ \A j \in Len(s)..Len(s2) : s2[j] = NONE => j = Len(s) + 1 /\ IsNoneOf(item)
    BY <2>1
  <2>7. HasDepths(items2, s2)
    BY ONLY <2>2, <2>5, <2>6, DepthsPushed, SMTT(20)
  <2>3. HasDepths(Around', s2)
    BY <2>4, <2>7
  <2> QED BY <2>1, <2>3 DEF BlockStack, HasDepths, IsDepth
<1>9. NextBlocks'
  <2>1. PICK q, q2 : q = next_block_stack /\ q2 = next_block_stack'
    OBVIOUS
  <2>2. /\ q \in Seq(0..Len(blocks)) /\ Len(q) = m + 1 /\ q[1] = NONE
        /\ \A i \in 1..m : /\ q[i + 1] # NONE
                           /\ Around[i].kind = "while" => HasNoCache(blocks, q[i + 1])
    BY <1>1, <1>4, <1>5, <2>1 DEF NextBlocks
  <2>3. /\ q2 \in Seq(0..Len(blocks')) /\ Len(q2) = m + 2 /\ q2[m + 2] = next
        /\ \A i \in 1..(m + 1) : q2[i] = q[i] /\ q[i] \in 0..Len(blocks)
    <3>1. PICK T, T2 : T = 0..Len(blocks) /\ T2 = 0..Len(blocks')
      OBVIOUS
    <3>2. q \in Seq(T) /\ T \subseteq T2 /\ next \in T2 /\ q2 = Append(q, next) /\ Len(q) = m + 1 /\ m \in Nat
      BY <1>1, <1>5, <2>1, <2>2, <3>1
    <3>3. q \in Seq(T2) /\ DOMAIN q = 1..(m + 1) /\ \A i \in 1..(m + 1) : q[i] \in T
      <4>1. DOMAIN q = 1..(m + 1) /\ q = [i \in 1..(m + 1) |-> q[i]]
        BY ONLY <3>2
      <4>2. \A i \in 1..(m + 1) : q[i] \in T
        BY ONLY <3>2, <4>1
      <4>3. q \in [1..(m + 1) -> T2]
        BY ONLY <3>2, <4>1, <4>2
      <4>4. q \in Seq(T2)
        BY ONLY <3>2, <4>3
      <4> QED BY <4>1, <4>2, <4>4
    <3>4. q2 \in Seq(T2) /\ Len(q2) = m + 2 /\ q2[m + 2] = next /\ \A i \in 1..(m + 1) : q2[i] = q[i]
      BY ONLY <3>2, <3>3
    <3> QED BY <3>1, <3>3, <3>4
  <2>4. ASSUME NEW i \in 1..(m + 1)
        PROVE  q2[i + 1] # NONE /\ (Around'[i].kind = "while" => HasNoCache(blocks', q2[i + 1]))
    <3>1. CASE i = m + 1
      BY <1>5, <1>6, <2>3, <3>1, SMTT(20) DEF NONE
    <3>2. CASE i # m + 1
      <4>1. i \in 1..m /\ i + 1 \in 1..(m + 1)
        BY ONLY <1>5, <3>2, i \in 1..(m + 1)
      <4>2. q[i + 1] \in 0..Len(blocks) /\ q[i + 1] # NONE /\ q2[i + 1] = q[i + 1]
        BY <2>2, <2>3, <4>1
      <4>3. q[i + 1] \in DOMAIN blocks
        BY <1>1, <4>2 DEF NONE
      <4> QED BY <1>6, <2>2, <4>1, <4>2, <4>3
    <3> QED BY <3>1, <3>2
  <2>5. 1 \in 1..(m + 1)
    BY <1>5
  <2>6. q2[1] = NONE
    BY <2>2, <2>3, <2>5
  <2>7. /\ next_block_stack' \in Seq(0..Len(blocks')) /\ Len(next_block_stack') = Len(open') + 1
        /\ next_block_stack'[1] = NONE
        /\ \A i \in DOMAIN open' :
             /\ next_block_stack'[i + 1] # NONE
             /\ Around'[i].kind = "while" => HasNoCache(blocks', next_block_stack'[i + 1])
    <3>1. next_block_stack' \in Seq(0..Len(blocks')) /\ next_block_stack'[1] = NONE
      BY <2>1, <2>3, <2>6
    <3>2. Len(next_block_stack') = Len(open') + 1
      BY <1>5, <2>1, <2>3
    <3> QED BY <1>5, <2>1, <2>4, <3>1, <3>2
  <2> QED BY <2>7 DEF NextBlocks
<1> QED BY <1>3, <1>7, <1>8, <1>9 DEF CfgPart

(* The topmost block of the stack is replaced by others.                    *)
BlocksOrNone(n) == 0..n
ReplacesTop(r, s, d, n) ==
  /\ r \in Seq(BlocksOrNone(n)) /\ Len(s) \in Numbers /\ Len(r) = Len(s) - 1 + Len(d)
  /\ \A j \in 1..(Len(s) - 1) : r[j] = s[j]
  /\ \A i \in 1..Len(d) : r[Len(s) - 1 + i] = d[i]

(* So does a step that pops one and pushes some.                            *)
LEMMA TopIsReplaced ==
  ASSUME CfgPart, NEW n \in Nat, Len(blocks) <= n, NEW d \in Seq(BlocksOrNone(n))
  PROVE  ReplacesTop(Pop(basic_block_stack) \o d, basic_block_stack, d, n)
<1>0. PICK r : r = Pop(basic_block_stack) \o d
  OBVIOUS
<1>1. basic_block_stack \in Seq(0..Len(blocks)) /\ Len(basic_block_stack) \in Numbers /\ Len(blocks) \in Nat
  BY CurrentIsBlock, NextIsBlock DEF CfgPart, BlockStack
<1>2. PICK s, T : s = basic_block_stack /\ T = BlocksOrNone(n)
  OBVIOUS
<1>3. s \in Seq(T) /\ d \in Seq(T) /\ Len(s) \in Nat \ {0}
  BY <1>1, <1>2 DEF Numbers, BlocksOrNone
<1>4. PICK p : p = Pop(s)
  OBVIOUS
<1>5. p \in Seq(T) /\ Len(p) = Len(s) - 1 /\ \A j \in 1..(Len(s) - 1) : p[j] = s[j]
  <2>1. PICK k : k = Len(s) - 1
    OBVIOUS
  <2>2. k \in Nat /\ DOMAIN s = 1..(k + 1) /\ \A j \in 1..k : s[j] \in T
    BY <1>3, <2>1
  <2>3. p = [j \in 1..k |-> s[j]]
    BY <1>4, <2>1, <2>2 DEF Pop
  <2>4. p \in [1..k -> T]
    BY <2>2, <2>3
  <2>5. p \in Seq(T) /\ Len(p) = k
    BY ONLY <2>2, <2>4
  <2> QED BY <2>1, <2>3, <2>5
<1>6. r = p \o d
  BY <1>0, <1>2, <1>4
<1>7. /\ p \o d \in Seq(T) /\ Len(p \o d) = Len(p) + Len(d)
      /\ \A i \in DOMAIN p : (p \o d)[i] = p[i]
      /\ \A i \in DOMAIN d : (p \o d)[Len(p) + i] = d[i]
  <2>1. p \in Seq(T) /\ d \in Seq(T)
    BY <1>3, <1>5
  <2> QED BY ONLY <2>1, ElementsInARow
<1>8. DOMAIN p = 1..(Len(s) - 1) /\ DOMAIN d = 1..Len(d)
  BY <1>3, <1>5
<1>9. /\ r \in Seq(T) /\ Len(r) = Len(s) - 1 + Len(d)
      /\ \A j \in 1..(Len(s) - 1) : r[j] = s[j]
      /\ \A i \in 1..Len(d) : r[Len(s) - 1 + i] = d[i]
  BY <1>5, <1>6, <1>7, <1>8
<1>10. Len(s) \in Numbers
  BY <1>1, <1>2
<1> QED BY <1>0, <1>2, <1>9, <1>10 DEF ReplacesTop

(* The beginning of an if statement.                                        *)
LEMMA IfIsVisited ==
  ASSUME CfgPart, IsCacheable, VisitIf
  PROVE  CfgPart'
<1>1. PICK steps \in Conditions, has_else \in BOOLEAN : BeginIf(steps, has_else)
  BY DEF VisitIf
<1>2. PICK t, e, a : t = Len(blocks) + 1 /\ e = ElseBlock(has_else) /\ a = AfterBlock(has_else)
  OBVIOUS
<1>3. e = (IF has_else THEN t + 1 ELSE NONE) /\ a = t + (IF has_else THEN 2 ELSE 1) /\ Len(blocks) \in Nat
  BY <1>2, NextIsBlock DEF ElseBlock, AfterBlock
<1>8. PICK item : item = [kind |-> "if", steps |-> steps, has_else |-> has_else, else_at |-> 0, end_at |-> 0]
  OBVIOUS
<1>9. /\ source' = Append(source, item) /\ open' = Append(open, Here)
      /\ blocks' = BlocksOfIf(steps, has_else)
      /\ basic_block_stack' = Pop(basic_block_stack) \o <<a, e, t>>
      /\ next_block_stack' = Append(next_block_stack, a)
  <2>1. /\ AfterBlock(has_else) = (Len(blocks) + 1) + (IF has_else THEN 2 ELSE 1)
        /\ ElseBlock(has_else) = IF has_else THEN (Len(blocks) + 1) + 1 ELSE NONE
    BY <1>2, <1>3
  <2> HIDE DEF NewBasicBlock, SetNext, SetNextBranch, Pop, Top, CurrentBlock, Here, ElseBlock, AfterBlock
  <2> QED BY <1>1, <1>2, <1>8, <2>1 DEF BeginIf, Visit, BlocksOfIf, NewBlocks
<1>10. steps \in Steps /\ item \in If /\ Width(item) = 2 /\ (IsNoneOf(item) <=> ~has_else) /\ item.kind # "while"
  <2>1. steps \in Steps
    BY ProgramParts
  <2>2. item \in If
    BY <1>8 DEF If
  <2> QED BY <1>8, <2>1, <2>2 DEF Width, IsNoneOf, IsInThenBody
<1>11. /\ AreConnected(blocks') /\ Len(blocks') = a
       /\ \A c \in DOMAIN blocks : HasNoCache(blocks, c) => HasNoCache(blocks', c)
  <2>1. steps \in Steps /\ has_else \in BOOLEAN
    BY <1>10
  <2> QED BY <1>2, <1>9, <2>1, BlocksOfIfAreConnected
<1>12. Len(blocks) \in Nat /\ a \in Nat /\ Len(blocks) <= a /\ a \in 1..a /\ e \in 0..a /\ t \in 1..a
       /\ (e = NONE <=> ~has_else)
  BY <1>2, <1>3, NextIsBlock DEF NONE
<1>13. PICK s, d : s = basic_block_stack /\ d = <<a, e, t>>
  OBVIOUS
<1>14. d \in Seq(0..a) /\ Len(d) = 3 /\ d[1] = a /\ d[2] = e /\ d[3] = t
  <2>1. PICK T : T = 0..a
    OBVIOUS
  <2>2. a \in T /\ e \in T /\ t \in T
    BY <1>12, <2>1
  <2>3. d \in Seq(T) /\ Len(d) = 3 /\ d[1] = a /\ d[2] = e /\ d[3] = t
    BY <1>13, <2>2
  <2> QED BY <2>1, <2>3
<1>15. /\ basic_block_stack' \in Seq(0..a) /\ Len(basic_block_stack') = Len(s) - 1 + Len(d)
       /\ \A j \in 1..(Len(s) - 1) : basic_block_stack'[j] = s[j]
       /\ \A i \in 1..Len(d) : basic_block_stack'[Len(s) - 1 + i] = d[i]
       /\ Len(s) \in Numbers
  <2>1. PICK r : r = basic_block_stack'
    OBVIOUS
  <2>4. PICK T : T = BlocksOrNone(a)
    OBVIOUS
  <2>2. a \in Nat /\ Len(blocks) <= a /\ d \in Seq(T) /\ r = Pop(basic_block_stack) \o d
    BY <1>9, <1>12, <1>13, <1>14, <2>1, <2>4 DEF BlocksOrNone
  <2>3. ReplacesTop(r, s, d, a)
    BY <1>13, <2>2, <2>4, TopIsReplaced
  <2>5. r \in Seq(0..a)
    BY <2>3 DEF ReplacesTop, BlocksOrNone
  <2> QED BY <2>1, <2>3, <2>5 DEF ReplacesTop
<1>16. Len(basic_block_stack') = Len(s) + 2
  BY <1>14, <1>15 DEF Numbers
<1>17. ASSUME NEW j \in Len(s)..Len(basic_block_stack'), basic_block_stack'[j] = NONE
       PROVE  j = Len(s) + 1 /\ IsNoneOf(item)
  <2>1. j = Len(s) \/ j = Len(s) + 1 \/ j = Len(s) + 2
    BY <1>15, <1>16 DEF Numbers
  <2>2. PICK x : x = basic_block_stack'
    OBVIOUS
  <2>3. Len(s) \in Nat /\ x[j] = NONE
    BY <1>15, <1>17, <2>2 DEF Numbers
  <2>4. /\ x[Len(s) - 1 + 1] = a /\ x[Len(s) - 1 + 2] = e /\ x[Len(s) - 1 + 3] = t
    BY <1>14, <1>15, <2>2
  <2>5. x[Len(s)] = a /\ x[Len(s) + 1] = e /\ x[Len(s) + 2] = t
    BY <2>3, <2>4
  <2> QED BY <1>10, <1>12, <2>1, <2>3, <2>5 DEF NONE
<1>18. /\ item \in If \cup While /\ a \in 1..Len(blocks')
       /\ Len(blocks') \in Nat /\ Len(blocks) <= Len(blocks') /\ basic_block_stack' \in Seq(0..Len(blocks'))
  BY <1>10, <1>11, <1>12, <1>15
<1> QED BY <1>9, <1>10, <1>11, <1>13, <1>15, <1>16, <1>17, <1>18, ItemIsOpened, ZenonT(40)

(* The blocks of a while statement, none of which has a cache.              *)
LEMMA BlocksOfWhileAreConnected ==
  ASSUME CfgPart, NEW steps \in Steps, NEW d, d = Len(blocks) + 1,
         Top(next_block_stack) # NONE => HasNoCache(blocks, Top(next_block_stack)),
         NEW r, r = BlocksOfWhile(steps, d, d + 1, d + 2)
  PROVE  /\ AreConnected(r) /\ Len(r) = d + 2 /\ HasNoCache(r, d)
         /\ \A c \in DOMAIN blocks : HasNoCache(blocks, c) => HasNoCache(r, c)
<1> DEFINE D == 1..(d + 2)
<1>1. /\ Len(blocks) \in Nat /\ DOMAIN blocks = 1..Len(blocks) /\ Top(next_block_stack) \in 0..Len(blocks)
      /\ CurrentBlock \in DOMAIN blocks /\ AreConnected(blocks)
  BY NextIsBlock, CurrentIsBlock DEF CfgPart
<1>2. PICK b, T : b = CurrentBlock /\ T = Top(next_block_stack)
  OBVIOUS
<1>3. /\ b \in D /\ d \in D /\ d + 1 \in D /\ d + 2 \in D /\ b # d /\ b # d + 1 /\ b # d + 2
      /\ d \in Nat /\ Len(blocks) + 3 = d + 2
      /\ \A c \in DOMAIN blocks : c \in D
      /\ \A c \in {d, d + 1, d + 2} : c \in (Len(blocks) + 1)..(Len(blocks) + 3)
      /\ (T # NONE => T \in DOMAIN blocks /\ T \in D)
  BY <1>1, <1>2 DEF NONE
<1>4. PICK b0 : b0 = blocks \o NewBlocks(3)
  OBVIOUS
<1>5. /\ AreConnected(b0) /\ b0 \in Seq(BasicBlock) /\ Len(b0) = d + 2 /\ DOMAIN b0 = D
      /\ \A c \in DOMAIN blocks : HasNoCache(blocks, c) => HasNoCache(b0, c)
      /\ HasNoCache(b0, d) /\ HasNoCache(b0, d + 1) /\ HasNoCache(b0, d + 2)
  <2>2. PICK k : k = 3
    OBVIOUS
  <2>1. AreConnected(blocks) /\ k \in Nat /\ b0 = blocks \o NewBlocks(k)
    BY <1>1, <1>4, <2>2
  <2>3. /\ AreConnected(b0) /\ b0 \in Seq(BasicBlock) /\ Len(b0) = Len(blocks) + k
        /\ DOMAIN b0 = 1..(Len(blocks) + k)
        /\ \A c \in DOMAIN blocks : HasNoCache(blocks, c) => HasNoCache(b0, c)
        /\ \A c \in (Len(blocks) + 1)..(Len(blocks) + k) : HasNoCache(b0, c)
    BY ONLY <2>1, NewBlocksAreConnected
  <2> QED BY <1>3, <2>2, <2>3
<1> HIDE DEF D
<1>6. \A c \in D : b0[c] \in BasicBlock
  BY <1>5, BlocksAre
<1>7. PICK last : last = IF T = NONE THEN <<>> ELSE <<T>>
  OBVIOUS
<1>8. PICK B1, B2, B3, B4 :
        /\ B1 = [b0[b] EXCEPT !.next = <<d>>]
        /\ B2 = [b0[d] EXCEPT !.next = <<d + 1, d + 2>>, !.condition = steps]
        /\ B3 = [b0[d + 1] EXCEPT !.next = <<d>>]
        /\ B4 = [b0[d + 2] EXCEPT !.next = last]
  OBVIOUS
<1>9. /\ <<d>> \in Seq(Numbers) /\ <<d + 1, d + 2>> \in Seq(Numbers) /\ last \in Seq(Numbers)
      /\ ToSet(<<d>>) = {d} /\ Len(<<d>>) \in 0..2
      /\ ToSet(<<d + 1, d + 2>>) = {d + 1, d + 2} /\ Len(<<d + 1, d + 2>>) \in 0..2
      /\ ToSet(last) \subseteq {T} /\ Len(last) \in 0..2 /\ (T = NONE => ToSet(last) = {})
  <2>1. d \in Numbers /\ d + 1 \in Numbers /\ d + 2 \in Numbers /\ (T = NONE \/ T \in Numbers)
    BY <1>1, <1>3 DEF Numbers
  <2>2. <<d>> \in Seq(Numbers) /\ <<d + 1, d + 2>> \in Seq(Numbers) /\ last \in Seq(Numbers)
    <3> HIDE DEF Numbers
    <3> QED BY <1>7, <2>1
  <2>3. /\ DOMAIN <<d>> = {1} /\ <<d>>[1] = d /\ Len(<<d>>) = 1
        /\ DOMAIN <<d + 1, d + 2>> = {1, 2} /\ <<d + 1, d + 2>>[1] = d + 1 /\ <<d + 1, d + 2>>[2] = d + 2
        /\ Len(<<d + 1, d + 2>>) = 2
    OBVIOUS
  <2>4. /\ DOMAIN <<T>> = {1} /\ <<T>>[1] = T /\ Len(<<T>>) = 1
        /\ ToSet(<<>>) = {} /\ Len(<<>>) = 0
    BY DEF ToSet
  <2>5. ToSet(<<d>>) = {d} /\ ToSet(<<d + 1, d + 2>>) = {d + 1, d + 2} /\ ToSet(<<T>>) = {T}
    BY <2>3, <2>4 DEF ToSet
  <2>6. ToSet(last) \subseteq {T} /\ Len(last) \in 0..2 /\ (T = NONE => ToSet(last) = {})
    BY <1>7, <2>4, <2>5
  <2> QED BY <2>2, <2>3, <2>5, <2>6
<1>10. /\ B1 \in BasicBlock /\ B1.next = <<d>> /\ B1.previous = b0[b].previous
       /\ B2 \in BasicBlock /\ B2.next = <<d + 1, d + 2>> /\ B2.previous = b0[d].previous
       /\ B3 \in BasicBlock /\ B3.next = <<d>> /\ B3.previous = b0[d + 1].previous
       /\ B4 \in BasicBlock /\ B4.next = last /\ B4.previous = b0[d + 2].previous
  <2>1. PICK s1, s2 : s1 = <<d>> /\ s2 = <<d + 1, d + 2>>
    OBVIOUS
  <2>2. s1 \in Seq(Numbers) /\ s2 \in Seq(Numbers)
    BY <1>9, <2>1
  <2>3. B1 \in BasicBlock /\ B1.next = s1 /\ B1.previous = b0[b].previous
    BY <1>3, <1>6, <1>8, <2>1, <2>2 DEF BasicBlock
  <2>4. B2 \in BasicBlock /\ B2.next = s2 /\ B2.previous = b0[d].previous
    BY <1>3, <1>6, <1>8, <2>1, <2>2 DEF BasicBlock
  <2>5. B3 \in BasicBlock /\ B3.next = s1 /\ B3.previous = b0[d + 1].previous
    BY <1>3, <1>6, <1>8, <2>1, <2>2 DEF BasicBlock
  <2>6. B4 \in BasicBlock /\ B4.next = last /\ B4.previous = b0[d + 2].previous
    BY <1>3, <1>6, <1>8, <1>9, ZenonT(40) DEF BasicBlock
  <2> QED BY <2>1, <2>3, <2>4, <2>5, <2>6
<1>11. r = [[[[b0 EXCEPT ![b] = B1] EXCEPT ![d] = B2] EXCEPT ![d + 1] = B3] EXCEPT ![d + 2] = B4]
  <2>1. r = [b0 EXCEPT ![b].next = <<d>>, ![d].next = <<d + 1, d + 2>>, ![d].condition = steps,
                       ![d + 1].next = <<d>>, ![d + 2].next = last]
    <3> HIDE DEF NewBasicBlock, CurrentBlock, Top
    <3> QED BY <1>2, <1>4, <1>7 DEF BlocksOfWhile, NewBlocks
  <2> HIDE DEF BasicBlock
  <2>2. PICK e1 : e1 = [b0 EXCEPT ![b].next = <<d>>]
    OBVIOUS
  <2>3. PICK e2 : e2 = [e1 EXCEPT ![d].next = <<d + 1, d + 2>>, ![d].condition = steps]
    OBVIOUS
  <2>4. PICK e3 : e3 = [e2 EXCEPT ![d + 1].next = <<d>>]
    OBVIOUS
  <2>5. r = [e3 EXCEPT ![d + 2].next = last]
    BY <2>1, <2>2, <2>3, <2>4
  <2>6. e1 = [b0 EXCEPT ![b] = B1] /\ DOMAIN e1 = D /\ e1[d] = b0[d] /\ e1[d + 1] = b0[d + 1] /\ e1[d + 2] = b0[d + 2]
    BY <1>3, <1>5, <1>8, <2>2
  <2>7. e2 = [e1 EXCEPT ![d] = B2] /\ DOMAIN e2 = D /\ e2[d + 1] = b0[d + 1] /\ e2[d + 2] = b0[d + 2]
    <3>1. PICK s, c1, c2 : s = <<d + 1, d + 2>> /\ c1 = d + 1 /\ c2 = d + 2
      OBVIOUS
    <3>2. d \in DOMAIN e1 /\ c1 \in DOMAIN e1 /\ c2 \in DOMAIN e1 /\ d # c1 /\ d # c2
      BY <1>3, <2>6, <3>1
    <3>4. e2 = [e1 EXCEPT ![d].next = s, ![d].condition = steps]
      BY ONLY <2>3, <3>1
    <3>5. B2 = [e1[d] EXCEPT !.next = s, !.condition = steps]
      <4>1. PICK x : x = b0[d]
        OBVIOUS
      <4>2. B2 = [x EXCEPT !.next = s, !.condition = steps]
        BY <1>8, <3>1, <4>1
      <4>3. x = e1[d]
        BY <2>6, <4>1
      <4> QED BY ONLY <4>2, <4>3
    <3>3. e2 = [e1 EXCEPT ![d] = B2] /\ DOMAIN e2 = DOMAIN e1 /\ e2[c1] = e1[c1] /\ e2[c2] = e1[c2]
      BY ONLY <3>2, <3>4, <3>5
    <3> QED BY <2>6, <3>1, <3>3
  <2>8. e3 = [e2 EXCEPT ![d + 1] = B3] /\ DOMAIN e3 = D /\ e3[d + 2] = b0[d + 2]
    <3>1. PICK s, c1, c2 : s = <<d>> /\ c1 = d + 1 /\ c2 = d + 2
      OBVIOUS
    <3>2. /\ c1 \in DOMAIN e2 /\ c2 \in DOMAIN e2 /\ c1 # c2
          /\ B3 = [e2[c1] EXCEPT !.next = s] /\ e3 = [e2 EXCEPT ![c1].next = s]
      BY <1>3, <1>8, <2>4, <2>7, <3>1
    <3>3. e3 = [e2 EXCEPT ![c1] = B3] /\ DOMAIN e3 = DOMAIN e2 /\ e3[c2] = e2[c2]
      BY ONLY <3>2
    <3> QED BY <2>7, <3>1, <3>3
  <2>9. r = [e3 EXCEPT ![d + 2] = B4]
    BY <1>3, <1>8, <2>5, <2>8
  <2> QED BY <2>6, <2>7, <2>8, <2>9
<1>12. PICK q1 : q1 = [b0 EXCEPT ![b] = B1]
  OBVIOUS
<1>13. PICK q2 : q2 = [q1 EXCEPT ![d] = B2]
  OBVIOUS
<1>14. PICK q3 : q3 = [q2 EXCEPT ![d + 1] = B3]
  OBVIOUS
<1>15. r = [q3 EXCEPT ![d + 2] = B4]
  BY <1>11, <1>12, <1>13, <1>14
<1>16. /\ q1 \in Seq(BasicBlock) /\ Len(q1) = d + 2 /\ DOMAIN q1 = D /\ q1[b] = B1
       /\ \A c \in D : c # b => q1[c] = b0[c]
  <2> HIDE DEF BasicBlock
  <2> QED BY <1>3, <1>5, <1>10, <1>12, ElementReplaced
<1>17. /\ q2 \in Seq(BasicBlock) /\ Len(q2) = d + 2 /\ DOMAIN q2 = D /\ q2[d] = B2
       /\ \A c \in D : c # d => q2[c] = q1[c]
  <2> HIDE DEF BasicBlock
  <2> QED BY <1>3, <1>10, <1>13, <1>16, ElementReplaced
<1>18. /\ q3 \in Seq(BasicBlock) /\ Len(q3) = d + 2 /\ DOMAIN q3 = D /\ q3[d + 1] = B3
       /\ \A c \in D : c # d + 1 => q3[c] = q2[c]
  <2> HIDE DEF BasicBlock
  <2> QED BY <1>3, <1>10, <1>14, <1>17, ElementReplaced
<1>19. /\ r \in Seq(BasicBlock) /\ Len(r) = d + 2 /\ DOMAIN r = D /\ r[d + 2] = B4
       /\ \A c \in D : c # d + 2 => r[c] = q3[c]
  <2> HIDE DEF BasicBlock
  <2> QED BY <1>3, <1>10, <1>15, <1>18, ElementReplaced
<1>20. d # d + 1 /\ d # d + 2 /\ d + 1 # d + 2
  BY <1>3
<1>21. /\ r[b] = B1 /\ r[d] = B2 /\ r[d + 1] = B3 /\ r[d + 2] = B4
       /\ \A c \in D : c # b /\ c # d /\ c # d + 1 /\ c # d + 2 => r[c] = b0[c]
  BY <1>3, <1>16, <1>17, <1>18, <1>19, <1>20
<1>22. \A c \in D : r[c].previous = b0[c].previous
  BY <1>10, <1>21
<1>23. \A c \in D : Len(b0[c].next) \in 0..2 /\ ToSet(b0[c].next) \subseteq D
  BY <1>5 DEF AreConnected
<1>24. HasNoCache(b0, d) /\ HasNoCache(b0, d + 1) /\ HasNoCache(b0, d + 2) /\ (T # NONE => HasNoCache(b0, T))
  BY <1>2, <1>3, <1>5
<1>25. ASSUME NEW c \in D
       PROVE  /\ Len(r[c].next) \in 0..2 /\ ToSet(r[c].next) \subseteq D
              /\ \A x \in ToSet(r[c].next) : x \in ToSet(b0[c].next) \/ HasNoCache(b0, x)
  <2>1. CASE c = b
    BY <1>3, <1>9, <1>10, <1>21, <1>24, <2>1
  <2>2. CASE c = d
    <3>1. PICK s2 : s2 = <<d + 1, d + 2>>
      OBVIOUS
    <3>2. r[c].next = s2 /\ Len(s2) \in 0..2 /\ \A x \in ToSet(s2) : x = d + 1 \/ x = d + 2
      BY <1>9, <1>10, <1>21, <2>2, <3>1
    <3> QED BY <1>3, <1>24, <3>2
  <2>3. CASE c = d + 1
    BY <1>3, <1>9, <1>10, <1>21, <1>24, <2>3
  <2>4. CASE c = d + 2
    BY <1>3, <1>9, <1>10, <1>21, <1>24, <2>4
  <2>5. CASE c # b /\ c # d /\ c # d + 1 /\ c # d + 2
    BY <1>21, <1>23, <2>5
  <2> QED BY <2>1, <2>2, <2>3, <2>4, <2>5
<1>26. AreConnected(r) /\ \A c \in DOMAIN b0 : HasNoCache(b0, c) => HasNoCache(r, c)
  <2>1. /\ AreConnected(b0) /\ r \in Seq(BasicBlock) /\ Len(r) = Len(b0)
        /\ \A c \in DOMAIN b0 : r[c].previous = b0[c].previous
        /\ \A c \in DOMAIN b0 :
             /\ Len(r[c].next) \in 0..2 /\ ToSet(r[c].next) \subseteq DOMAIN b0
             /\ \A x \in ToSet(r[c].next) : x \in ToSet(b0[c].next) \/ HasNoCache(b0, x)
    BY <1>5, <1>19, <1>22, <1>25
  <2> QED BY ONLY <2>1, NextIsSet
<1> QED BY <1>3, <1>5, <1>19, <1>26

(* The beginning of a while statement, which is in no if statement.         *)
LEMMA WhileIsVisited ==
  ASSUME CfgPart, IsCacheable, VisitWhile
  PROVE  CfgPart'
<1>1. PICK d : d = Len(blocks) + 1
  OBVIOUS
<1>2. PICK steps \in Conditions :
        /\ LoopsInBranches \/ \A i \in 1 .. Len(open) : source[open[i]].kind = "while"
        /\ source' = Append(source, [kind |-> "while", steps |-> steps, end_at |-> 0])
        /\ open' = Append(open, Here)
        /\ blocks' = BlocksOfWhile(steps, d, d + 1, d + 2)
        /\ next_block_stack' = Append(next_block_stack, d)
        /\ basic_block_stack' = Pop(basic_block_stack) \o <<d + 2, d + 1>>
  <2> HIDE DEF BlocksOfWhile, Pop, Here
  <2> QED BY <1>1 DEF VisitWhile, Visit
<1>3. PICK item : item = [kind |-> "while", steps |-> steps, end_at |-> 0]
  OBVIOUS
<1>4. steps \in Steps /\ item \in While /\ Width(item) = 1 /\ ~LoopsInBranches
  <2>1. steps \in Steps /\ ~LoopsInBranches
    BY ProgramParts
  <2>2. item \in While
    BY <1>3 DEF While
  <2> QED BY <1>3, <2>1, <2>2 DEF Width, IsInThenBody
<1>5. Top(next_block_stack) # NONE => HasNoCache(blocks, Top(next_block_stack))
  <2>1. SUFFICES ASSUME Top(next_block_stack) # NONE PROVE HasNoCache(blocks, Top(next_block_stack))
    OBVIOUS
  <2>2. PICK m : m = Len(open)
    OBVIOUS
  <2>3. /\ m \in Nat /\ DOMAIN open = 1..m /\ Len(next_block_stack) = m + 1 /\ next_block_stack[1] = NONE
        /\ \A i \in 1..m : Around[i].kind = "while" => HasNoCache(blocks, next_block_stack[i + 1])
        /\ \A i \in 1..m : Around[i].kind = "while"
    BY <1>2, <1>4, <2>2, AroundAre DEF CfgPart, NextBlocks
  <2>4. m # 0
    BY <2>1, <2>3 DEF Top
  <2>5. m \in 1..m
    BY <2>3, <2>4
  <2> QED BY <2>3, <2>5 DEF Top
<1>6. /\ AreConnected(blocks') /\ Len(blocks') = d + 2 /\ HasNoCache(blocks', d)
      /\ \A c \in DOMAIN blocks : HasNoCache(blocks, c) => HasNoCache(blocks', c)
  BY <1>1, <1>2, <1>4, <1>5, BlocksOfWhileAreConnected
<1>7. Len(blocks) \in Nat /\ d \in Nat /\ Len(blocks) <= d + 2 /\ d \in 1..(d + 2)
  BY <1>1, NextIsBlock
<1>8. PICK s, e : s = basic_block_stack /\ e = <<d + 2, d + 1>>
  OBVIOUS
<1>9. e \in Seq(BlocksOrNone(d + 2)) /\ Len(e) = 2 /\ e[1] = d + 2 /\ e[2] = d + 1
  <2>1. PICK T : T = BlocksOrNone(d + 2)
    OBVIOUS
  <2>2. d + 2 \in T /\ d + 1 \in T
    BY <1>7, <2>1 DEF BlocksOrNone
  <2>3. e \in Seq(T) /\ Len(e) = 2 /\ e[1] = d + 2 /\ e[2] = d + 1
    BY <1>8, <2>2
  <2> QED BY <2>1, <2>3
<1>10. ReplacesTop(basic_block_stack', s, e, d + 2)
  <2>1. PICK n : n = d + 2
    OBVIOUS
  <2>2. n \in Nat /\ Len(blocks) <= n /\ e \in Seq(BlocksOrNone(n))
    BY <1>7, <1>9, <2>1
  <2>3. ReplacesTop(Pop(basic_block_stack) \o e, basic_block_stack, e, n)
    BY <2>2, TopIsReplaced
  <2> QED BY <1>2, <1>8, <2>1, <2>3
<1>11. /\ basic_block_stack' \in Seq(0..(d + 2)) /\ Len(basic_block_stack') = Len(s) + 1
       /\ \A j \in 1..(Len(s) - 1) : basic_block_stack'[j] = s[j]
       /\ basic_block_stack'[Len(s)] = d + 2 /\ basic_block_stack'[Len(s) + 1] = d + 1
       /\ Len(s) \in Nat
  <2>1. PICK x : x = basic_block_stack'
    OBVIOUS
  <2>2. /\ x \in Seq(BlocksOrNone(d + 2)) /\ Len(s) \in Numbers /\ Len(x) = Len(s) - 1 + 2
        /\ \A j \in 1..(Len(s) - 1) : x[j] = s[j]
        /\ \A i \in 1..2 : x[Len(s) - 1 + i] = e[i]
    BY <1>9, <1>10, <2>1 DEF ReplacesTop
  <2>3. x[Len(s) - 1 + 1] = d + 2 /\ x[Len(s) - 1 + 2] = d + 1
    BY <1>9, <2>2
  <2>4. x[Len(s)] = d + 2 /\ x[Len(s) + 1] = d + 1 /\ Len(x) = Len(s) + 1 /\ Len(s) \in Nat
    BY <2>2, <2>3 DEF Numbers
  <2>5. x \in Seq(0..(d + 2))
    BY <2>2 DEF BlocksOrNone
  <2> QED BY <2>1, <2>2, <2>4, <2>5
<1>12. ASSUME NEW j \in Len(s)..Len(basic_block_stack'), basic_block_stack'[j] = NONE
       PROVE  j = Len(s) + 1 /\ IsNoneOf(item)
  <2>1. j = Len(s) \/ j = Len(s) + 1
    BY <1>11
  <2>2. basic_block_stack'[j] = d + 2 \/ basic_block_stack'[j] = d + 1
    BY <1>11, <2>1
  <2>3. d + 2 # NONE /\ d + 1 # NONE
    BY <1>7 DEF NONE
  <2> QED BY <1>12, <2>2, <2>3
<1>13. /\ item \in If \cup While /\ d \in 1..Len(blocks') /\ source' = Append(source, item)
       /\ Len(blocks') \in Nat /\ Len(blocks) <= Len(blocks') /\ basic_block_stack' \in Seq(0..Len(blocks'))
       /\ Len(basic_block_stack') = Len(s) + Width(item)
  BY <1>2, <1>3, <1>4, <1>6, <1>7, <1>11
<1> QED BY <1>2, <1>6, <1>8, <1>11, <1>12, <1>13, ItemIsOpened

(* The innermost item.                                                      *)
LEMMA TopIsOpen ==
  ASSUME CfgPart, open # <<>>
  PROVE  /\ Len(open) \in Nat \ {0} /\ Len(open) \in 1..Len(open) /\ Top(open) = open[Len(open)]
         /\ Top(open) \in DOMAIN source /\ source[Top(open)] \in If \cup While
         /\ Around[Len(open)] = source[Top(open)]
         /\ \A i \in 1..(Len(open) - 1) :
              i \in 1..Len(open) /\ open[i] \in DOMAIN source /\ open[i] # Top(open) /\ Around[i] = source[open[i]]
         /\ Here \in Numbers /\ DOMAIN source = 1..(Here - 1)
<1>1. /\ open \in Seq(DOMAIN source) /\ source \in Seq(Items)
      /\ \A i, j \in DOMAIN open : i < j => open[i] < open[j]
  BY DEF CfgPart, OpenItems
<1>2. PICK D, m : D = DOMAIN source /\ m = Len(open)
  OBVIOUS
<1>3. m \in Nat /\ m # 0
  <2>1. open \in Seq(D)
    BY <1>1, <1>2
  <2> QED BY ONLY <1>2, <2>1, open # <<>>
<1>4. /\ DOMAIN open = 1..m
      /\ \A i \in 1..m : /\ open[i] \in DOMAIN source /\ Around[i] = source[open[i]]
                         /\ source[open[i]] \in If \cup While
  BY <1>2, AroundAre
<1>5. Top(open) = open[m] /\ m \in 1..m
  BY <1>2, <1>3 DEF Top
<1>6. DOMAIN source = 1..Len(source) /\ Len(source) \in Nat
  <2> HIDE DEF Items
  <2> QED BY <1>1
<1>7. ASSUME NEW i \in 1..(m - 1) PROVE i \in 1..m /\ open[i] # Top(open)
  <2>1. i \in 1..m /\ i < m
    BY <1>3
  <2>2. open[i] < open[m] /\ open[i] \in 1..Len(source) /\ open[m] \in 1..Len(source)
    BY <1>1, <1>4, <1>5, <1>6, <2>1
  <2> QED BY <1>5, <1>6, <2>1, <2>2
<1>8. Here \in Numbers /\ DOMAIN source = 1..(Here - 1)
  BY <1>6 DEF Here, Numbers
<1> QED BY <1>2, <1>3, <1>4, <1>5, <1>7, <1>8

(* It is changed, and an item is added.                                     *)
LEMMA ItemIsChanged ==
  ASSUME CfgPart, open # <<>>, NEW x \in If \cup While, NEW item \in Items,
         source' = Append([source EXCEPT ![Top(open)] = x], item)
  PROVE  /\ source' \in Seq(Items) /\ DOMAIN source \subseteq DOMAIN source' /\ source'[Top(open)] = x
         /\ \A i \in DOMAIN source : i # Top(open) => source'[i] = source[i]
<1>1. source \in Seq(Items) /\ Top(open) \in DOMAIN source /\ x \in Items
  BY TopIsOpen DEF CfgPart, Items
<1>2. PICK o, s : o = Top(open) /\ s = [source EXCEPT ![Top(open)] = x]
  OBVIOUS
<1>3. /\ s \in Seq(Items) /\ DOMAIN s = DOMAIN source /\ s[o] = x
      /\ \A i \in DOMAIN source : i # o => s[i] = source[i]
  <2> HIDE DEF Items
  <2> QED BY <1>1, <1>2, ElementReplaced
<1>4. /\ Append(s, item) \in Seq(Items) /\ DOMAIN Append(s, item) = DOMAIN s \cup {Len(s) + 1}
      /\ \A i \in DOMAIN s : Append(s, item)[i] = s[i]
  <2> HIDE DEF Items
  <2> QED BY <1>3, ElementAppended
<1> QED BY <1>1, <1>2, <1>3, <1>4

(* The end of an if or a while statement.                                   *)
LEMMA ItemIsClosed ==
  ASSUME CfgPart, open # <<>>,
         source' = Append([source EXCEPT ![Top(open)].end_at = Here], [kind |-> "end", opened_at |-> Top(open)]),
         open' = Pop(open), next_block_stack' = Pop(next_block_stack), blocks' = blocks,
         basic_block_stack' \in Seq(0..Len(blocks)),
         Len(basic_block_stack') = Len(basic_block_stack) - Width(source[Top(open)]),
         \A j \in 1..Len(basic_block_stack') : basic_block_stack'[j] = basic_block_stack[j]
  PROVE  CfgPart'
<1>1. PICK o, m : o = Top(open) /\ m = Len(open)
  OBVIOUS
<1>2. /\ m \in Nat \ {0} /\ m \in 1..m /\ o \in DOMAIN source /\ source[o] \in If \cup While
      /\ Around[m] = source[o]
      /\ \A i \in 1..(m - 1) :
           i \in 1..m /\ open[i] \in DOMAIN source /\ open[i] # o /\ Around[i] = source[open[i]]
      /\ Here \in Numbers /\ DOMAIN source = 1..(Here - 1)
  BY <1>1, TopIsOpen
<1>3. /\ source \in Seq(Items) /\ AreConnected(blocks) /\ HasDepths(Around, basic_block_stack)
      /\ basic_block_stack \in Seq(0..Len(blocks)) /\ Len(blocks) \in Nat /\ NextBlocks
      /\ \A i, j \in DOMAIN open : i < j => open[i] < open[j]
      /\ DOMAIN open = 1..m /\ open \in Seq(DOMAIN source)
      /\ \A i \in 1..m : source[open[i]] \in If \cup While
  BY <1>1, NextIsBlock, AroundAre DEF CfgPart, BlockStack, OpenItems
<1>4. PICK x : x = [source[o] EXCEPT !.end_at = Here]
  OBVIOUS
<1>5. x \in If \cup While
  BY <1>2, <1>4 DEF If, While, Numbers
<1>6. PICK item : item = [kind |-> "end", opened_at |-> o]
  OBVIOUS
<1>7. item \in Items
  BY <1>2, <1>6 DEF Items, Numbers
<1>8. source' = Append([source EXCEPT ![Top(open)] = x], item)
  <2> HIDE DEF Here, Top
  <2> QED BY <1>1, <1>2, <1>4, <1>6
<1>9. /\ source' \in Seq(Items) /\ DOMAIN source \subseteq DOMAIN source'
      /\ \A i \in DOMAIN source : i # o => source'[i] = source[i]
  BY <1>1, <1>5, <1>7, <1>8, ItemIsChanged
<1>10. PICK p : p = Pop(open)
  OBVIOUS
<1>11. /\ p \in Seq(DOMAIN source) /\ Len(p) = m - 1 /\ DOMAIN p = 1..(m - 1)
       /\ \A i \in 1..(m - 1) : p[i] = open[i]
  <2>1. PICK T : T = DOMAIN source
    OBVIOUS
  <2>2. open \in Seq(T) /\ \A i \in 1..(m - 1) : open[i] \in T
    BY <1>2, <1>3, <2>1
  <2>3. p = [i \in 1..(m - 1) |-> open[i]] /\ m - 1 \in Nat
    BY <1>1, <1>2, <1>10, <2>2 DEF Pop
  <2>4. p \in [1..(m - 1) -> T]
    BY <2>2, <2>3
  <2>5. p \in Seq(T) /\ Len(p) = m - 1
    BY ONLY <2>3, <2>4
  <2> QED BY <2>1, <2>3, <2>5
<1>12. /\ open' \in Seq(DOMAIN source') /\ DOMAIN open' = 1..(m - 1) /\ Len(open') = m - 1
       /\ \A i \in 1..(m - 1) : open'[i] = open[i] /\ source'[open'[i]] = Around[i]
  <2>1. PICK T, T2 : T = DOMAIN source /\ T2 = DOMAIN source'
    OBVIOUS
  <2>2. p \in Seq(T) /\ T \subseteq T2
    BY <1>9, <1>11, <2>1
  <2>3. p \in Seq(T2)
    BY ONLY <2>2
  <2> QED BY <1>2, <1>9, <1>10, <1>11, <2>1, <2>3, SMTT(20)
<1>13. Around' = [i \in 1..(m - 1) |-> Around[i]]
  BY <1>12 DEF Around
<1>14. OpenItems'
  <2>1. ASSUME NEW i \in 1..(m - 1) PROVE source'[open'[i]] \in If \cup While /\ i \in 1..m
    <3>1. i \in 1..m /\ Around[i] = source[open[i]]
      BY <1>2
    <3>2. source[open[i]] \in If \cup While
      BY <1>3, <3>1
    <3>3. source'[open'[i]] = Around[i]
      BY <1>12
    <3> QED BY <3>1, <3>2, <3>3
  <2>2. ASSUME NEW i \in 1..(m - 1), NEW j \in 1..(m - 1), i < j PROVE open'[i] < open'[j]
    BY <1>3, <1>12, <2>1, <2>2
  <2> QED BY <1>12, <2>1, <2>2 DEF OpenItems
<1>15. BlockStack'
  <2>1. PICK s, s2, items, items2 : /\ s = basic_block_stack /\ s2 = basic_block_stack'
                                    /\ items = Around /\ items2 = Around'
    OBVIOUS
  <2>2. /\ Len(items) = m /\ Len(items2) = m - 1 /\ \A i \in 1..(m - 1) : items2[i] = items[i]
        /\ items[m] = source[o]
    <3>1. m - 1 \in Nat
      BY <1>2
    <3>2. Len(items2) = m - 1
      BY <1>13, <2>1, <3>1
    <3>3. Len(items) = m
      BY <1>1, <2>1, AroundAre
    <3> QED BY <1>2, <1>13, <2>1, <3>2, <3>3
  <2>3. /\ Len(items) \in Nat \ {0} /\ Len(s) \in Nat /\ HasDepths(items, s)
        /\ Len(items2) = Len(items) - 1 /\ \A i \in 1..Len(items2) : items2[i] = items[i]
    BY <1>2, <1>3, <2>1, <2>2
  <2>4. Len(s2) = Len(s) - Width(items[Len(items)]) /\ \A j \in 1..Len(s2) : s2[j] = s[j]
    BY <1>1, <2>1, <2>2
  <2>5. HasDepths(items2, s2)
    BY ONLY <2>3, <2>4, DepthsPopped, SMTT(20)
  <2>6. HasDepths(Around', basic_block_stack')
    BY <2>1, <2>5
  <2> QED BY <2>6 DEF BlockStack, HasDepths, IsDepth
<1>16. NextBlocks'
  <2>1. PICK q, q2 : q = next_block_stack /\ q2 = next_block_stack'
    OBVIOUS
  <2>2. /\ q \in Seq(0..Len(blocks)) /\ Len(q) = m + 1 /\ q[1] = NONE
        /\ \A i \in 1..m : /\ q[i + 1] # NONE
                           /\ Around[i].kind = "while" => HasNoCache(blocks, q[i + 1])
    BY <1>1, <1>3, <2>1 DEF NextBlocks
  <2>3. q2 \in Seq(0..Len(blocks)) /\ Len(q2) = m /\ \A i \in 1..m : q2[i] = q[i]
    <3>1. PICK T : T = 0..Len(blocks)
      OBVIOUS
    <3>6. q \in Seq(T) /\ Len(q) = m + 1 /\ m \in Nat
      BY <1>2, <2>2, <3>1
    <3>2. q \in Seq(T) /\ \A i \in 1..m : q[i] \in T
      BY ONLY <3>6
    <3>3. q2 = [i \in 1..m |-> q[i]]
      BY <1>2, <2>1, <2>2, <3>2 DEF Pop
    <3>4. q2 \in [1..m -> T] /\ m \in Nat
      BY <1>2, <3>2, <3>3
    <3>5. q2 \in Seq(T) /\ Len(q2) = m
      BY ONLY <3>4
    <3> QED BY <3>1, <3>3, <3>5
  <2>4. ASSUME NEW i \in 1..(m - 1)
        PROVE  q2[i + 1] # NONE /\ (Around'[i].kind = "while" => HasNoCache(blocks, q2[i + 1]))
    <3>1. i \in 1..m /\ i + 1 \in 1..m
      BY <1>2
    <3> QED BY <1>13, <2>2, <2>3, <3>1
  <2>5. 1 \in 1..m /\ m = (m - 1) + 1
    BY <1>2
  <2>6. q2[1] = NONE
    BY <2>2, <2>3, <2>5
  <2>7. /\ next_block_stack' \in Seq(0..Len(blocks')) /\ next_block_stack'[1] = NONE
        /\ Len(next_block_stack') = Len(open') + 1
    BY <1>12, <2>1, <2>3, <2>5, <2>6
  <2>8. \A i \in DOMAIN open' :
             /\ next_block_stack'[i + 1] # NONE
             /\ Around'[i].kind = "while" => HasNoCache(blocks', next_block_stack'[i + 1])
    BY <1>12, <2>1, <2>4
  <2> QED BY <2>7, <2>8 DEF NextBlocks
<1>17. AreConnected(blocks')
  BY <1>3
<1> QED BY <1>9, <1>14, <1>15, <1>16, <1>17 DEF CfgPart

(* The stack without its topmost block, or without its two topmost.         *)
LEMMA StackIsPopped ==
  ASSUME NEW T, NEW s \in Seq(T), Len(s) # 0
  PROVE  Pop(s) \in Seq(T) /\ Len(Pop(s)) = Len(s) - 1 /\ \A j \in 1..Len(Pop(s)) : Pop(s)[j] = s[j]
<1>1. PICK k, p : k = Len(s) - 1 /\ p = Pop(s)
  OBVIOUS
<1>2. k \in Nat /\ \A j \in 1..k : s[j] \in T
  BY <1>1
<1>3. p = [j \in 1..k |-> s[j]]
  BY <1>1, <1>2 DEF Pop
<1>4. p \in [1..k -> T]
  BY <1>2, <1>3
<1>5. p \in Seq(T) /\ Len(p) = k
  BY ONLY <1>2, <1>4
<1> QED BY <1>1, <1>3, <1>5

(* There are at least as many blocks on the stack as the items leave there. *)
LEMMA StackIsDeep ==
  ASSUME CfgPart, open # <<>>
  PROVE  Len(basic_block_stack) \in Nat /\ Len(basic_block_stack) >= 1 + Width(source[Top(open)])
<1>1. PICK m, n : m = Len(open) /\ n = Len(basic_block_stack)
  OBVIOUS
<1>2. /\ m \in Nat \ {0} /\ m \in 1..m /\ Len(Around) = m /\ Around[m] = source[Top(open)]
      /\ HasDepths(Around, basic_block_stack) /\ n \in Nat
  BY <1>1, TopIsOpen, AroundAre, CurrentIsBlock DEF CfgPart, BlockStack, Numbers
<1>3. PICK depth : IsDepth(depth, Around, basic_block_stack)
  BY <1>2 DEF HasDepths
<1>4. /\ depth \in [1..(m + 1) -> 1..n] /\ depth[m + 1] = n
      /\ \A i \in 1..m : depth[i + 1] = depth[i] + Width(Around[i])
  BY <1>1, <1>2, <1>3 DEF IsDepth
<1>5. depth[m] \in 1..n /\ n = depth[m] + Width(source[Top(open)])
  BY <1>2, <1>4
<1>6. Width(source[Top(open)]) \in {1, 2}
  BY DEF Width
<1> QED BY <1>1, <1>2, <1>5, <1>6

(* The end of an if statement: the None is popped too.                      *)
LEMMA EndOfIfIsVisited ==
  ASSUME CfgPart, EndIf
  PROVE  CfgPart'
<1>1. PICK s, x : s = basic_block_stack /\ x = source[Top(open)]
  OBVIOUS
<1>2. /\ open # <<>> /\ x.kind = "if" /\ (x.has_else => x.else_at \in 1 .. Len(source) - 1)
      /\ basic_block_stack' = StackAfterIf(x.has_else)
      /\ source' = Append([source EXCEPT ![Top(open)].end_at = Here], [kind |-> "end", opened_at |-> Top(open)])
      /\ open' = Pop(open) /\ next_block_stack' = Pop(next_block_stack) /\ blocks' = blocks
  <2> HIDE DEF Top, Pop, Here, StackAfterIf
  <2> QED BY <1>1 DEF EndIf
<1>3. x \in If /\ x.has_else \in BOOLEAN /\ (x.has_else => x.else_at # 0)
  <2>1. x \in If \cup While
    BY <1>1, <1>2, TopIsOpen
  <2>2. x \in If
    BY <1>2, <2>1 DEF While
  <2>3. x.has_else => x.else_at # 0
    <3>1. Len(source) \in Nat
      BY <1>2, TopIsOpen DEF Here, Numbers
    <3> QED BY <1>2, <3>1
  <2> QED BY <2>2, <2>3 DEF If
<1>4. Width(x) = (IF x.has_else THEN 1 ELSE 2)
  BY <1>2, <1>3 DEF Width, IsInThenBody, If
<1>5. PICK T : T = 0..Len(blocks)
  OBVIOUS
<1>6. s \in Seq(T) /\ Len(s) \in Nat /\ Len(s) >= 1 + Width(x)
  BY <1>1, <1>2, <1>5, StackIsDeep DEF CfgPart, BlockStack
<1>7. PICK p : p = Pop(s)
  OBVIOUS
<1>8. p \in Seq(T) /\ Len(p) = Len(s) - 1 /\ \A j \in 1..Len(p) : p[j] = s[j]
  <2>1. Len(s) # 0
    BY <1>4, <1>6
  <2> QED BY <1>6, <1>7, <2>1, StackIsPopped
<1>9. PICK p2 : p2 = basic_block_stack'
  OBVIOUS
<1>10. p2 \in Seq(T) /\ Len(p2) = Len(s) - Width(x) /\ \A j \in 1..Len(p2) : p2[j] = s[j]
  <2>1. CASE x.has_else
    <3>1. p2 = p
      BY <1>1, <1>2, <1>7, <1>9, <2>1 DEF StackAfterIf
    <3> QED BY <1>4, <1>8, <2>1, <3>1
  <2>2. CASE ~x.has_else
    <3>1. p2 = Pop(p) /\ Len(p) # 0
      BY <1>1, <1>2, <1>4, <1>6, <1>7, <1>8, <1>9, <2>2 DEF StackAfterIf
    <3>2. p2 \in Seq(T) /\ Len(p2) = Len(p) - 1 /\ \A j \in 1..Len(p2) : p2[j] = p[j]
      BY <1>8, <3>1, StackIsPopped
    <3>3. Len(p2) = Len(s) - Width(x) /\ \A j \in 1..Len(p2) : j \in 1..Len(p)
      BY <1>4, <1>6, <1>8, <2>2, <3>2
    <3> QED BY <1>8, <3>2, <3>3
  <2> QED BY <2>1, <2>2
<1>11. /\ basic_block_stack' \in Seq(0..Len(blocks))
       /\ Len(basic_block_stack') = Len(basic_block_stack) - Width(source[Top(open)])
       /\ \A j \in 1..Len(basic_block_stack') : basic_block_stack'[j] = basic_block_stack[j]
  BY <1>1, <1>5, <1>9, <1>10
<1> QED BY <1>2, <1>11, ItemIsClosed

(* The end of a while statement.                                            *)
LEMMA EndOfWhileIsVisited ==
  ASSUME CfgPart, EndWhile
  PROVE  CfgPart'
<1>1. PICK s, x : s = basic_block_stack /\ x = source[Top(open)]
  OBVIOUS
<1>2. /\ open # <<>> /\ x.kind = "while" /\ basic_block_stack' = Pop(s)
      /\ source' = Append([source EXCEPT ![Top(open)].end_at = Here], [kind |-> "end", opened_at |-> Top(open)])
      /\ open' = Pop(open) /\ next_block_stack' = Pop(next_block_stack) /\ blocks' = blocks
  <2> HIDE DEF Top, Pop, Here
  <2> QED BY <1>1 DEF EndWhile
<1>3. Width(x) = 1
  BY <1>2 DEF Width, IsInThenBody
<1>4. PICK T : T = 0..Len(blocks)
  OBVIOUS
<1>5. s \in Seq(T) /\ Len(s) \in Nat /\ Len(s) >= 1 + Width(x)
  BY <1>1, <1>2, <1>4, StackIsDeep DEF CfgPart, BlockStack
<1>6. PICK p : p = Pop(s)
  OBVIOUS
<1>7. p \in Seq(T) /\ Len(p) = Len(s) - 1 /\ \A j \in 1..Len(p) : p[j] = s[j]
  <2>1. Len(s) # 0
    BY <1>3, <1>5
  <2> QED BY <1>5, <1>6, <2>1, StackIsPopped
<1>8. /\ basic_block_stack' \in Seq(0..Len(blocks))
      /\ Len(basic_block_stack') = Len(basic_block_stack) - Width(source[Top(open)])
      /\ \A j \in 1..Len(basic_block_stack') : basic_block_stack'[j] = basic_block_stack[j]
  BY <1>1, <1>2, <1>3, <1>4, <1>6, <1>7
<1> QED BY <1>2, <1>8, ItemIsClosed

(* The end of a then body that has an else body.                            *)
LEMMA ElseIsVisited ==
  ASSUME CfgPart, VisitElse
  PROVE  CfgPart'
<1>1. PICK o, m, s : o = Top(open) /\ m = Len(open) /\ s = basic_block_stack
  OBVIOUS
<1>2. PICK item : item = [kind |-> "else", opened_at |-> o]
  OBVIOUS
<1>3. PICK x : x = [source[o] EXCEPT !.else_at = Here]
  OBVIOUS
<1>4. /\ open # <<>> /\ source[o].kind = "if" /\ source[o].has_else /\ source[o].else_at = 0
      /\ source' = Append([source EXCEPT ![o] = x], item)
      /\ basic_block_stack' = Pop(s) /\ open' = open /\ blocks' = blocks
      /\ next_block_stack' = next_block_stack
  <2>1. /\ open # <<>> /\ source[o].kind = "if" /\ source[o].has_else /\ source[o].else_at = 0
        /\ source' = Append([source EXCEPT ![o].else_at = Here], item)
        /\ basic_block_stack' = Pop(s) /\ open' = open /\ blocks' = blocks
        /\ next_block_stack' = next_block_stack
    <3> HIDE DEF Top, Pop, Here
    <3> QED BY <1>1, <1>2 DEF VisitElse
  <2>2. o \in DOMAIN source
    BY <1>1, <2>1, TopIsOpen
  <2> HIDE DEF Here
  <2> QED BY <1>3, <2>1, <2>2
<1>5. /\ m \in Nat \ {0} /\ m \in 1..m /\ o = open[m] /\ o \in DOMAIN source
      /\ source[o] \in If \cup While /\ Around[m] = source[o]
      /\ \A i \in 1..(m - 1) :
           i \in 1..m /\ open[i] \in DOMAIN source /\ open[i] # o /\ Around[i] = source[open[i]]
      /\ Here \in Numbers
  BY <1>1, <1>4, TopIsOpen
<1>6. x \in If /\ x.kind = "if" /\ x.else_at # 0
  <2>1. source[o] \in If
    BY <1>4, <1>5 DEF While
  <2> QED BY <1>3, <1>4, <1>5, <2>1 DEF If, Numbers
<1>7. item \in Items
  <2>1. o \in Nat
    BY <1>1, <1>4, <1>5, TopIsOpen DEF Numbers
  <2> QED BY <1>2, <2>1 DEF Items
<1>8. /\ source' \in Seq(Items) /\ DOMAIN source \subseteq DOMAIN source' /\ source'[o] = x
      /\ \A i \in DOMAIN source : i # o => source'[i] = source[i]
  BY <1>1, <1>4, <1>6, <1>7, ItemIsChanged
<1>9. /\ source \in Seq(Items) /\ AreConnected(blocks) /\ HasDepths(Around, basic_block_stack)
      /\ basic_block_stack \in Seq(0..Len(blocks)) /\ Len(blocks) \in Nat /\ NextBlocks
      /\ \A i, j \in DOMAIN open : i < j => open[i] < open[j]
      /\ DOMAIN open = 1..m /\ open \in Seq(DOMAIN source)
      /\ \A i \in 1..m : source[open[i]] \in If \cup While
  BY <1>1, NextIsBlock, AroundAre DEF CfgPart, BlockStack, OpenItems
<1>10. /\ Around' = [i \in 1..m |-> source'[open[i]]] /\ source'[open[m]] = x
       /\ \A i \in 1..(m - 1) : source'[open[i]] = Around[i]
       /\ \A i \in 1..m : i = m \/ i \in 1..(m - 1)
  <2>1. Around' = [i \in 1..m |-> source'[open[i]]]
    BY <1>1, <1>4 DEF Around
  <2>2. \A i \in 1..m : i = m \/ i \in 1..(m - 1)
    BY <1>5
  <2>3. source'[open[m]] = x /\ \A i \in 1..(m - 1) : source'[open[i]] = Around[i]
    BY <1>5, <1>8
  <2> QED BY <2>1, <2>2, <2>3
<1>11. \A i \in 1..m : source'[open[i]] \in If \cup While
  BY <1>5, <1>6, <1>9, <1>10
<1>12. OpenItems'
  <2>1. open' \in Seq(DOMAIN source')
    <3>1. PICK T, T2 : T = DOMAIN source /\ T2 = DOMAIN source'
      OBVIOUS
    <3>2. open \in Seq(T) /\ T \subseteq T2
      BY <1>8, <1>9, <3>1
    <3>3. open \in Seq(T2)
      BY ONLY <3>2
    <3> QED BY <1>4, <3>1, <3>3
  <2> QED BY <1>4, <1>9, <1>11, <2>1 DEF OpenItems
<1>13. /\ Width(source[o]) = 2 /\ IsInThenBody(source[o]) /\ ~IsNoneOf(source[o]) /\ ~IsInThenBody(x)
  BY <1>4, <1>6 DEF Width, IsInThenBody, IsNoneOf
<1>14. BlockStack'
  <2>1. PICK T : T = 0..Len(blocks)
    OBVIOUS
  <2>2. s \in Seq(T) /\ Len(s) \in Nat /\ Len(s) >= 3
    BY <1>1, <1>4, <1>9, <1>13, <2>1, StackIsDeep
  <2>3. PICK s2 : s2 = Pop(s)
    OBVIOUS
  <2>4. s2 \in Seq(T) /\ Len(s2) = Len(s) - 1 /\ \A j \in 1..Len(s2) : s2[j] = s[j]
    <3>1. Len(s) # 0
      BY <2>2
    <3> QED BY <2>2, <2>3, <3>1, StackIsPopped
  <2>5. PICK items, items2 : items = Around /\ items2 = Around'
    OBVIOUS
  <2>6. /\ Len(items) = m /\ Len(items2) = m /\ items[m] = source[o] /\ items2[m] = x
        /\ \A i \in 1..(m - 1) : items2[i] = items[i]
    <3>1. Len(items) = m
      BY <1>1, <2>5, AroundAre
    <3>2. Len(items2) = m
      BY <1>5, <1>10, <2>5
    <3>3. items2[m] = x
      BY <1>5, <1>10, <2>5
    <3>4. \A i \in 1..(m - 1) : items2[i] = items[i]
      BY <1>5, <1>10, <2>5
    <3> QED BY <1>5, <2>5, <3>1, <3>2, <3>3, <3>4
  <2>7. /\ Len(items) \in Nat \ {0} /\ Len(s) \in Nat /\ HasDepths(items, s)
        /\ IsInThenBody(items[Len(items)]) /\ ~IsNoneOf(items[Len(items)])
        /\ Len(items2) = Len(items) /\ \A i \in 1..(Len(items) - 1) : items2[i] = items[i]
        /\ ~IsInThenBody(items2[Len(items)])
    BY <1>1, <1>5, <1>9, <1>13, <2>2, <2>5, <2>6
  <2>8. HasDepths(items2, s2)
    BY ONLY <2>4, <2>7, DepthsReplaced
  <2>9. HasDepths(Around', basic_block_stack') /\ basic_block_stack' \in Seq(T) /\ Len(blocks') = Len(blocks)
    BY <1>4, <2>3, <2>4, <2>5, <2>8
  <2> QED BY <2>1, <2>9 DEF BlockStack, HasDepths, IsDepth
<1>15. NextBlocks'
  <2>1. \A i \in 1..m : Around'[i].kind = "while" => Around[i].kind = "while"
    <3>1. ASSUME NEW i \in 1..m PROVE Around'[i].kind = "while" => Around[i].kind = "while"
      <4>1. Around'[i] = source'[open[i]]
        BY <1>10
      <4>2. CASE i = m
        BY <1>6, <1>10, <4>1, <4>2
      <4>3. CASE i \in 1..(m - 1)
        BY <1>10, <4>1, <4>3
      <4> QED BY <1>10, <4>2, <4>3
    <3> QED BY <3>1
  <2>2. /\ next_block_stack \in Seq(0..Len(blocks)) /\ Len(next_block_stack) = Len(open) + 1
        /\ next_block_stack[1] = NONE
        /\ \A i \in DOMAIN open :
             /\ next_block_stack[i + 1] # NONE
             /\ Around[i].kind = "while" => HasNoCache(blocks, next_block_stack[i + 1])
    BY <1>9 DEF NextBlocks
  <2>3. /\ next_block_stack' \in Seq(0..Len(blocks')) /\ Len(next_block_stack') = Len(open') + 1
        /\ next_block_stack'[1] = NONE /\ DOMAIN open' = 1..m
    BY <1>4, <1>9, <2>2
  <2>4. \A i \in DOMAIN open' :
             /\ next_block_stack'[i + 1] # NONE
             /\ Around'[i].kind = "while" => HasNoCache(blocks', next_block_stack'[i + 1])
    BY <1>4, <1>9, <2>1, <2>2, <2>3
  <2> QED BY <2>3, <2>4 DEF NextBlocks
<1>16. AreConnected(blocks')
  BY <1>4, <1>9
<1> QED BY <1>8, <1>12, <1>14, <1>15, <1>16 DEF CfgPart

(* Every step of the visitor.                                               *)
LEMMA CfgIsCreated ==
  ASSUME CfgPart, IsCacheable, CfgStep
  PROVE  CfgPart'
BY StatementIsVisited, ReturnIsVisited, IfIsVisited, ElseIsVisited, EndOfIfIsVisited, WhileIsVisited,
   EndOfWhileIsVisited DEF CfgStep

-----------------------------------------------------------------------------
(* The invariant.                                                           *)

(* A step of the visitor stays in its phase.                                *)
LEMMA VisitorGoesOn ==
  ASSUME CfgStep
  PROVE  phase = "cfg" /\ phase' = "cfg"
BY DEF CfgStep, VisitAssignment, VisitFunctionCall, VisitSimpleStatement, VisitReturn, VisitIf, BeginIf,
       VisitElse, EndIf, VisitWhile, EndWhile, Visit

(* The blocks change while there are no instructions.                       *)
LEMMA InvariantCfg ==
  ASSUME IsCacheable, Invariant, CfgStep, UNCHANGED ir_vars, UNCHANGED run_vars
  PROVE  Invariant'
<1>1. /\ phase = "cfg" /\ phase' = "cfg" /\ CfgPart' /\ code = <<>>
  BY VisitorGoesOn, CfgIsCreated DEF Invariant
<1>2. blocks' \in Seq(BasicBlock) /\ blocks' # <<>> /\ Len(blocks') \in Nat /\ 1 \in DOMAIN blocks'
  <2>1. PICK B, bs : B = BasicBlock /\ bs = blocks'
    OBVIOUS
  <2>2. bs \in Seq(B) /\ bs # <<>>
    BY <1>1, <2>1 DEF CfgPart, AreConnected
  <2>3. Len(bs) \in Nat /\ 1 \in DOMAIN bs
    BY ONLY <2>2
  <2> QED BY <2>1, <2>2, <2>3
<1>3. /\ code' = code /\ caches' = caches /\ count' = count /\ at' = FirstOf(1) /\ fresh' = {}
      /\ count \in Nat /\ caches \in Seq(Cache) /\ Len(code) = Len(caches) /\ code \in Seq(Instructions)
  BY <1>1 DEF ir_vars, run_vars, Invariant, IRPart, Instructions
<1>4. Len(code) = 0 /\ DOMAIN code = {}
  BY <1>1
<1>5. IRPart'
  <2> HIDE DEF Instructions, Cache
  <2>1. Len(code') <= Len(blocks') /\ Len(code') = Len(caches')
    BY <1>2, <1>3, <1>4
  <2>2. code' \in Seq(Seq(IRInstruction)) /\ caches' \in Seq(Cache) /\ count' \in Nat
    BY <1>3 DEF Instructions
  <2>3. DOMAIN code' = {}
    BY <1>3, <1>4
  <2> QED BY <2>1, <2>2, <2>3 DEF IRPart
<1>6. RunPart'
  <2>1. FirstOf(1) = [block |-> 1, index |-> 1] /\ 1 \in Numbers
    BY DEF FirstOf, Numbers
  <2> QED BY <1>1, <1>2, <1>3, <2>1 DEF RunPart
<1> QED BY <1>1, <1>3, <1>5, <1>6 DEF Invariant, FirstOf

(* Nothing changes but the phase.                                           *)
LEMMA PartsAreUnchanged ==
  ASSUME CfgPart, IRPart, UNCHANGED <<cfg_vars, ir_vars>>
  PROVE  CfgPart' /\ IRPart'
<1>1. /\ source' = source /\ open' = open /\ blocks' = blocks /\ basic_block_stack' = basic_block_stack
      /\ next_block_stack' = next_block_stack /\ code' = code /\ caches' = caches /\ count' = count
  BY DEF cfg_vars, ir_vars
<1>2. CfgPart'
  BY <1>1 DEF CfgPart, OpenItems, BlockStack, NextBlocks, Around
<1>3. \A b : KnownBefore(b)' = KnownBefore(b)
  BY <1>1 DEF KnownBefore
<1>4. IRPart'
  BY <1>1, <1>3 DEF IRPart
<1> QED BY <1>2, <1>4

(* The instructions are begun, created and finished.                        *)
LEMMA InvariantIR ==
  ASSUME Invariant, StartCreatingIR \/ CreateForBasicBlock, UNCHANGED run_vars
  PROVE  Invariant'
<1>1. /\ phase' \in {"cfg", "ir"} /\ phase' # "cfg" /\ at = FirstOf(1) /\ fresh = {} /\ at' = at /\ fresh' = fresh
      /\ blocks' = blocks /\ UNCHANGED cfg_vars
  BY DEF StartCreatingIR, CreateForBasicBlock, run_vars, Invariant, cfg_vars
<1>2. CfgPart'
  BY <1>1 DEF Invariant, CfgPart, OpenItems, BlockStack, NextBlocks, Around, cfg_vars
<1>3. IRPart'
  <2>1. CASE StartCreatingIR
    BY <2>1, PartsAreUnchanged DEF StartCreatingIR, Invariant
  <2>2. CASE CreateForBasicBlock
    BY <2>2, BlockIsCreated DEF Invariant
  <2> QED BY <2>1, <2>2
<1>4. RunPart'
  BY <1>1 DEF RunPart, Invariant
<1> QED BY <1>1, <1>2, <1>3, <1>4 DEF Invariant, FirstOf

(* The compiled function begins, with nothing known.                        *)
LEMMA InvariantStart ==
  ASSUME Invariant, StartRunning
  PROVE  Invariant'
<1>1. /\ phase = "ir" /\ phase' = "run" /\ Len(code) = Len(blocks) /\ at' = FirstOf(1) /\ fresh' = {}
      /\ blocks' = blocks /\ code' = code /\ caches' = caches /\ count' = count
      /\ UNCHANGED <<cfg_vars, ir_vars>> /\ CfgPart /\ IRPart
  BY DEF StartRunning, run_vars, Invariant, cfg_vars, ir_vars
<1>2. CfgPart' /\ IRPart'
  BY <1>1, PartsAreUnchanged
<1>3. blocks \in Seq(BasicBlock) /\ DOMAIN blocks = 1..Len(blocks) /\ 1 \in DOMAIN blocks
  <2>1. PICK B : B = BasicBlock
    OBVIOUS
  <2>2. blocks \in Seq(B) /\ blocks # <<>>
    BY <1>1, <2>1 DEF CfgPart, AreConnected
  <2>3. DOMAIN blocks = 1..Len(blocks) /\ 1 \in DOMAIN blocks
    BY ONLY <2>2
  <2> QED BY <2>1, <2>2, <2>3
<1>4. KnownBefore(1) = {}
  <2>1. PICK p : p = blocks[1].previous
    OBVIOUS
  <2>2. p \in Seq(Numbers)
    BY <1>3, <2>1, BlocksAre
  <2>3. \A q \in ToSet(p) : q >= 1
    BY <2>2 DEF ToSet, Numbers
  <2>4. ToSet(p) = {} \/ \E q \in ToSet(p) : q >= 1
    BY <2>3
  <2> QED BY <2>1, <2>4 DEF KnownBefore
<1>5. RunPart'
  BY <1>1, <1>3, <1>4, BeginsToRun
<1> QED BY <1>1, <1>2, <1>5 DEF Invariant

(* The compiled function runs.                                              *)
LEMMA InvariantRun ==
  ASSUME Invariant, RunStep
  PROVE  Invariant'
<1>1. UNCHANGED <<cfg_vars, ir_vars>> /\ phase' \in {"run", "done"} /\ phase = "run"
  BY DEF RunStep, SourceJumps, RunLoad, RunSilent, RunGoto, RunRead, RunCall, RunStore, RunTest, RunReturn,
         OnlyRunning, Running, Does
<1>2. CfgPart' /\ IRPart'
  BY <1>1, PartsAreUnchanged DEF Invariant
<1>3. RunPart'
  BY RunKeepsTheCache
<1> QED BY <1>1, <1>2, <1>3 DEF Invariant

(* In the beginning there is one block.                                     *)
LEMMA InvariantInit ==
  ASSUME Init
  PROVE  Invariant
<1>1. /\ phase = "cfg" /\ source = <<>> /\ open = <<>> /\ blocks = <<NewBasicBlock>>
      /\ basic_block_stack = <<1>> /\ next_block_stack = <<NONE>>
      /\ code = <<>> /\ caches = <<>> /\ count = 0 /\ at = FirstOf(1) /\ fresh = {}
  BY DEF Init, InitCfg, InitIR
<1>2. NewBasicBlock \in BasicBlock /\ NewBasicBlock.next = <<>> /\ NewBasicBlock.previous = <<>>
  <2>1. <<>> \in Steps /\ <<>> \in Seq(Statement) /\ <<>> \in Seq(Numbers)
    <3>1. ToSet(<<>>) = {}
      BY DEF ToSet
    <3> HIDE DEF Statement
    <3> QED BY <3>1 DEF Steps
  <2> QED BY <2>1 DEF NewBasicBlock, BasicBlock
<1>3. Len(blocks) = 1 /\ DOMAIN blocks = {1} /\ blocks[1] = NewBasicBlock /\ blocks \in Seq(BasicBlock)
  <2> HIDE DEF BasicBlock, NewBasicBlock
  <2> QED BY <1>1, <1>2
<1>4. AreConnected(blocks)
  <2>1. ToSet(<<>>) = {} /\ Len(<<>>) \in 0..2 /\ blocks # <<>>
    <3> HIDE DEF NewBasicBlock
    <3> QED BY <1>1 DEF ToSet
  <2> QED BY <1>2, <1>3, <2>1 DEF AreConnected, HasNoCache
<1>5. source \in Seq(Items)
  <2> HIDE DEF Items
  <2> QED BY <1>1
<1>6. open \in Seq(DOMAIN source) /\ DOMAIN open = {} /\ Len(open) = 0
  BY <1>1
<1>7. OpenItems
  BY <1>6 DEF OpenItems
<1>8. BlockStack
  <2>1. Len(Around) = 0 /\ Len(<<1>>) = 1 /\ <<1>>[1] = 1
    BY <1>6 DEF Around
  <2>2. IsDepth([i \in 1..(Len(Around) + 1) |-> 1], Around, <<1>>)
    <3>1. [i \in 1..(Len(Around) + 1) |-> 1] \in [1..(Len(Around) + 1) -> 1..Len(<<1>>)]
      BY <2>1
    <3> QED BY <2>1, <3>1 DEF IsDepth, NONE
  <2>3. HasDepths(Around, <<1>>)
    BY <2>2 DEF HasDepths, IsDepth
  <2>4. <<1>> \in Seq(0..1)
    OBVIOUS
  <2> QED BY <1>1, <1>3, <2>3, <2>4 DEF BlockStack
<1>9. NextBlocks
  BY <1>1, <1>3, <1>6 DEF NextBlocks, NONE
<1>10. IRPart
  <2>1. code \in Seq(Seq(IRInstruction)) /\ caches \in Seq(Cache) /\ Len(code) = 0 /\ Len(caches) = 0 /\ DOMAIN code = {}
    <3> HIDE DEF Cache, IRInstruction
    <3> QED BY <1>1
  <2> QED BY <1>1, <1>3, <2>1 DEF IRPart
<1>11. RunPart
  <2>1. FirstOf(1) = [block |-> 1, index |-> 1] /\ 1 \in Numbers
    BY DEF FirstOf, Numbers
  <2> QED BY <1>1, <1>3, <2>1 DEF RunPart
<1> QED BY <1>1, <1>4, <1>5, <1>7, <1>8, <1>9, <1>10, <1>11 DEF Invariant, CfgPart

(* It says that the variables have their types.                             *)
LEMMA InvariantTypeOK ==
  ASSUME Invariant
  PROVE  TypeOK
<1>1. CfgPart /\ IRPart /\ RunPart /\ phase \in {"cfg", "ir", "run", "done"}
  BY DEF Invariant
<1>2. \A i \in 1 .. Len(open) : source[open[i]].kind \in {"if", "while"}
  <2>1. \A i \in 1 .. Len(open) : source[open[i]] \in If \cup While
    BY <1>1, AroundAre
  <2>2. \A x \in If \cup While : x.kind \in {"if", "while"}
    BY DEF If, While
  <2> QED BY <2>1, <2>2
<1>3. blocks \in Seq(BasicBlock) /\ DOMAIN blocks = 1..Len(blocks) /\ Len(blocks) \in Nat
  BY <1>1, CurrentIsBlock, NextIsBlock
<1>4. ASSUME NEW b \in 1 .. Len(blocks)
      PROVE  /\ Len(blocks[b].next) \in 0 .. 2
             /\ \A i \in 1 .. Len(blocks[b].next) : blocks[b].next[i] \in 1 .. Len(blocks)
  <2>1. PICK next : next = blocks[b].next
    OBVIOUS
  <2>2. Len(next) \in 0..2 /\ ToSet(next) \subseteq DOMAIN blocks /\ next \in Seq(Numbers)
    BY <1>1, <1>3, <2>1, BlocksAre DEF CfgPart, AreConnected
  <2>3. \A i \in 1..Len(next) : next[i] \in ToSet(next)
    BY <2>2 DEF ToSet
  <2> QED BY <1>3, <2>1, <2>2, <2>3
<1>5. \A i \in 1 .. Len(basic_block_stack) : basic_block_stack[i] \in 0 .. Len(blocks)
  BY <1>1 DEF CfgPart, BlockStack
<1>6. ASSUME open = <<>> PROVE Len(basic_block_stack) = 1 /\ next_block_stack = <<NONE>>
  <2>1. Len(open) = 0 /\ Len(Around) = 0
    BY <1>1, <1>6, AroundAre
  <2>2. Len(basic_block_stack) = 1
    BY <1>1, <2>1 DEF CfgPart, BlockStack, HasDepths, IsDepth
  <2>3. next_block_stack \in Seq(0..Len(blocks)) /\ Len(next_block_stack) = 1 /\ next_block_stack[1] = NONE
    BY <1>1, <2>1 DEF CfgPart, NextBlocks
  <2> QED BY <2>2, <2>3
<1>7. Len(code) = Len(caches) /\ Len(code) <= Len(blocks) /\ fresh \subseteq Variables \X (0 .. count - 1)
  BY <1>1 DEF IRPart, RunPart
<1>8. at.block \in 1 .. Len(blocks)
  BY <1>1, <1>3 DEF RunPart
<1>9. phase = "run" => at.index \in 1 .. Len(code[at.block])
  BY WhereItIs
<1> QED BY <1>1, <1>2, <1>4, <1>5, <1>6, <1>7, <1>8, <1>9 DEF TypeOK

(* It says that what is read is fresh.                                      *)
LEMMA InvariantFreshReads ==
  ASSUME Invariant
  PROVE  FreshReads
<1> SUFFICES ASSUME phase = "run", Current.op \in {"read", "callee"}
             PROVE  <<Current.variable, Current.from[1]>> \in fresh
  BY DEF FreshReads
<1>1. PICK c, i : c = code[at.block] /\ i = at.index
  OBVIOUS
<1>2. /\ c \in Instructions /\ i \in 1..Len(c) /\ Current = c[i] /\ AreSound(KnownBefore(at.block), c, count)
  BY <1>1, WhereItIs DEF Current
<1>3. i \in DOMAIN c
  BY <1>2, InstructionsInARow
<1>4. /\ Current.variable \in Variables /\ Current.from[1] \in 0..(count - 1)
      /\ Holds(KnownBefore(at.block), c, i, Current.variable, Current.from[1])
  BY <1>2, <1>3 DEF AreSound, Marks
<1> QED BY <1>1, <1>4 DEF Invariant, RunPart

(* The invariant of CacheInvariant holds, for the programs in which every   *)
(* while statement is outside of the if statements and a call that changes  *)
(* variables is a statement of its own.                                     *)
THEOREM InvariantHolds ==
  ASSUME IsCacheable
  PROVE  Spec => []Invariant
<1>1. Init => Invariant
  BY InvariantInit
<1>2. Invariant /\ [Next]_vars => Invariant'
  <2> SUFFICES ASSUME Invariant, [Next]_vars PROVE Invariant'
    OBVIOUS
  <2>1. CASE CreateStep /\ UNCHANGED run_vars
    BY <2>1, InvariantCfg, InvariantIR DEF CreateStep
  <2>2. CASE StartRunning
    BY <2>2, InvariantStart
  <2>3. CASE RunStep
    BY <2>3, InvariantRun
  <2>4. CASE UNCHANGED vars
    <3>1. UNCHANGED <<cfg_vars, ir_vars>> /\ phase' = phase /\ at' = at /\ fresh' = fresh /\ code' = code
          /\ blocks' = blocks /\ caches' = caches /\ count' = count
      BY <2>4 DEF vars, cfg_vars, ir_vars, run_vars
    <3>2. CfgPart' /\ IRPart'
      BY <3>1, PartsAreUnchanged DEF Invariant
    <3>3. RunPart'
      BY <3>1 DEF Invariant, RunPart, KnownBefore
    <3> QED BY <3>1, <3>2, <3>3 DEF Invariant, FirstOf
  <2> QED BY <2>1, <2>2, <2>3, <2>4 DEF Next
<1> QED BY <1>1, <1>2, PTL DEF Spec

(* The variables have their types, and the visitor leaves one block on its  *)
(* stack.                                                                   *)
THEOREM CacheTypeOK ==
  ASSUME IsCacheable
  PROVE  Spec => []TypeOK
BY InvariantHolds, InvariantTypeOK, PTL

(* For every such program, a temporary that is used for a variable holds    *)
(* the value the variable has now (MediumLevelIRCreator                     *)
(* .__computeIntoTemporary takes it from __variables_in_temporaries).       *)
THEOREM CompiledReadsAreFresh ==
  ASSUME IsCacheable
  PROVE  Spec => []FreshReads
BY InvariantHolds, InvariantFreshReads, PTL

(* What a block hands on to the next ones is true when it ends              *)
(* (variables_in_temporaries_at_end).                                       *)
THEOREM CachesHold ==
  ASSUME IsCacheable
  PROVE  Spec => []CacheHolds
<1>1. Invariant => CacheHolds
  BY TrueAtJump DEF CacheHolds, Jumps
<1> QED BY <1>1, InvariantHolds, PTL
=============================================================================
