---------------------------- MODULE Logger_proofs ----------------------------
(***************************************************************************)
(* Proofs about Logger for any number of calls, levels, fields of a tm,    *)
(* pieces of a line and ticks of the clock.                                *)
(***************************************************************************)
EXTENDS Logger, FiniteSetTheorems, SequenceTheorems, TLAPS

(* The part of TypeOK that does not count pieces.                          *)
Types ==
    /\ pc \in [Call -> Control]
    /\ logLevel_ \in LogLevel
    /\ clock \in Time
    /\ tm \in [Field -> Time \cup {0}]
    /\ level \in [Call -> LogLevel \cup {NoLevel}]
    /\ pre \in [Call -> LogLevel \cup {NoLevel}]
    /\ now \in [Call -> Time \cup {0}]
    /\ todo \in [Call -> SUBSET Field]
    /\ tm_time \in [Call -> [Field -> Time \cup {0}]]
    /\ met \in [Call -> SUBSET Call]
    /\ out \in Seq(Call)

(* Calls under way together have met; met ones have started; a call has    *)
(* read the clock exactly when it is past that step; and localtime() has   *)
(* one caller.                                                             *)
Met ==
    /\ \A c, d \in Active : c # d => d \in met[c]
    /\ \A c \in Call : \A d \in met[c] : pc[d] # "start"
    /\ \A c \in Call : now[c] = 0 <=> pc[c] \in {"start", "log", "now"}
    /\ \A c, d \in Call : pc[c] = "localtime" /\ pc[d] = "localtime" => c = d

(* What is in the Logger is current to a call that will read it, and what  *)
(* it has read is.                                                         *)
LevelInv ==
    \A c \in Call :
        /\ pc[c] = "log" => \E d \in met[c] \cup {c} : level[d] = logLevel_
        /\ pc[c] \notin {"start", "log"} => LevelIsCurrent(c)

(* The same for the fields of the static buffer, written and not yet read, *)
(* and for those read.                                                     *)
BufferIsCurrent(c, f) ==
    \E d \in met[c] \cup {c} : now[d] # 0 /\ now[d] = tm[f]
FieldOK(c, f) ==
    /\ pc[c] = "localtime" /\ f \notin todo[c] => BufferIsCurrent(c, f)
    /\ pc[c] = "snprintf" => BufferIsCurrent(c, f)
    /\ pc[c] = "snprintf" /\ f \notin todo[c] => FieldIsCurrent(c, f)
    /\ Formatted(c) => FieldIsCurrent(c, f)
FieldInv == \A c \in Call : \A f \in Field : FieldOK(c, f)

-----------------------------------------------------------------------------
(* The types are kept by every step.                                       *)
LEMMA TypesStep ==
  ASSUME Types, [Next]_vars
  PROVE  Types'
<1> USE DEF Types, Control, Go, Active, loggerVars, timeVars
<1>1. CASE Tick
  BY <1>1, LoggerAssumption DEF Tick, Time
<1>2. ASSUME NEW c \in Call, NEW l \in LogLevel, LOG(c, l)
      PROVE  Types'
  BY <1>2 DEF LOG, setLogLevel
<1>3. ASSUME NEW c \in Call, ReadLevel(c)
      PROVE  Types'
  BY <1>3 DEF ReadLevel
<1>4. ASSUME NEW c \in Call, Now(c)
      PROVE  Types'
  BY <1>4 DEF Now
<1>5. ASSUME NEW c \in Call, Localtime(c)
      PROVE  Types'
  BY <1>5 DEF Localtime
<1>6. ASSUME NEW c \in Call, NEW f \in Field, WriteField(c, f)
      PROVE  Types'
  <2>1. tm' \in [Field -> Time \cup {0}]
    BY <1>6 DEF WriteField
  <2>2. pc' = pc \/ pc' = [pc EXCEPT ![c] = "snprintf"]
    BY <1>6 DEF WriteField
  <2>3. todo' = [todo EXCEPT ![c] = Field] \/ todo' = [todo EXCEPT ![c] = @ \ {f}]
    BY <1>6 DEF WriteField
  <2>4. pc' \in [Call -> Control]
    BY <2>2
  <2>5. todo' \in [Call -> SUBSET Field]
    BY <2>3
  <2>6. UNCHANGED <<loggerVars, clock, now, tm_time, met, out>>
    BY <1>6 DEF WriteField
  <2>7. QED
    BY <2>1, <2>4, <2>5, <2>6
<1>7. ASSUME NEW c \in Call, NEW f \in Field, ReadField(c, f)
      PROVE  Types'
  BY <1>7 DEF ReadField
<1>8. ASSUME NEW c \in Call, Insert(c)
      PROVE  Types'
  <2>1. out' \in Seq(Call)
    BY <1>8, AppendProperties DEF Insert
  <2>2. pc' \in [Call -> Control]
    BY <1>8 DEF Insert
  <2>3. QED
    BY <1>8, <2>1, <2>2 DEF Insert
<1>9. CASE UNCHANGED vars
  BY <1>9 DEF vars
<1>10. QED
  BY <1>1, <1>2, <1>3, <1>4, <1>5, <1>6, <1>7, <1>8, <1>9 DEF Next

(* So are the facts about who has met whom and who has read the clock.     *)
LEMMA MetStep ==
  ASSUME Types, Met, [Next]_vars
  PROVE  Met'
<1> USE DEF Types, Met, Control, Go, Active, loggerVars, timeVars
<1>1. CASE Tick
  BY <1>1 DEF Tick
<1>2. ASSUME NEW c \in Call, NEW l \in LogLevel, LOG(c, l)
      PROVE  Met'
  BY <1>2 DEF LOG, setLogLevel
<1>3. ASSUME NEW c \in Call, ReadLevel(c)
      PROVE  Met'
  BY <1>3 DEF ReadLevel
<1>4. ASSUME NEW c \in Call, Now(c)
      PROVE  Met'
  <2>1. clock # 0
    BY LoggerAssumption DEF Time
  <2>2. QED
    BY <1>4, <2>1 DEF Now
<1>5. ASSUME NEW c \in Call, Localtime(c)
      PROVE  Met'
  BY <1>5 DEF Localtime
<1>6. ASSUME NEW c \in Call, NEW f \in Field, WriteField(c, f)
      PROVE  Met'
  <2>1. /\ pc[c] = "localtime" /\ now' = now /\ met' = met
        /\ \/ pc' = pc
           \/ pc' = [pc EXCEPT ![c] = "snprintf"]
    BY <1>6 DEF WriteField
  <2>2. CASE pc' = pc
    BY <2>1, <2>2
  <2>3. CASE pc' = [pc EXCEPT ![c] = "snprintf"]
    <3>1. \A d \in Call : pc'[d] = IF d = c THEN "snprintf" ELSE pc[d]
      BY <2>3
    <3>2. Active' = Active
      BY <2>1, <3>1
    <3>3. QED
      BY <2>1, <3>1, <3>2
  <2>4. QED
    BY <2>1, <2>2, <2>3
<1>7. ASSUME NEW c \in Call, NEW f \in Field, ReadField(c, f)
      PROVE  Met'
  <2>1. /\ pc[c] = "snprintf" /\ now' = now /\ met' = met
        /\ \/ pc' = pc
           \/ pc' = [pc EXCEPT ![c] = "print"]
    BY <1>7 DEF ReadField
  <2>2. CASE pc' = pc
    BY <2>1, <2>2
  <2>3. CASE pc' = [pc EXCEPT ![c] = "print"]
    <3>1. \A d \in Call : pc'[d] = IF d = c THEN "print" ELSE pc[d]
      BY <2>3
    <3>2. Active' = Active
      BY <2>1, <3>1
    <3>3. QED
      BY <2>1, <3>1, <3>2
  <2>4. QED
    BY <2>1, <2>2, <2>3
<1>8. ASSUME NEW c \in Call, Insert(c)
      PROVE  Met'
  <2>1. /\ pc[c] = "print" /\ now' = now /\ met' = met
        /\ \/ pc' = pc
           \/ pc' = [pc EXCEPT ![c] = "done"]
    BY <1>8 DEF Insert
  <2>2. CASE pc' = pc
    BY <2>1, <2>2
  <2>3. CASE pc' = [pc EXCEPT ![c] = "done"]
    <3>1. \A d \in Call : pc'[d] = IF d = c THEN "done" ELSE pc[d]
      BY <2>3
    <3>2. Active' \subseteq Active
      BY <2>1, <3>1
    <3>3. QED
      BY <2>1, <3>1, <3>2
  <2>4. QED
    BY <2>1, <2>2, <2>3
<1>9. CASE UNCHANGED vars
  BY <1>9 DEF vars
<1>10. QED
  BY <1>1, <1>2, <1>3, <1>4, <1>5, <1>6, <1>7, <1>8, <1>9 DEF Next

(* The level: a call that stores it meets all those that have stored theirs*)
(* and not read it yet.                                                    *)
LEMMA LevelStep ==
  ASSUME Types, Met, LevelInv, [Next]_vars
  PROVE  LevelInv'
<1> USE DEF Types, Met, LevelInv, LevelIsCurrent, Control, Go, Active, loggerVars, timeVars
<1>1. CASE Tick
  BY <1>1 DEF Tick
<1>2. ASSUME NEW c \in Call, NEW l \in LogLevel, LOG(c, l)
      PROVE  LevelInv'
  BY <1>2 DEF LOG, setLogLevel
<1>3. ASSUME NEW c \in Call, ReadLevel(c)
      PROVE  LevelInv'
  BY <1>3 DEF ReadLevel
<1>4. ASSUME NEW c \in Call, Now(c)
      PROVE  LevelInv'
  BY <1>4 DEF Now
<1>5. ASSUME NEW c \in Call, Localtime(c)
      PROVE  LevelInv'
  BY <1>5 DEF Localtime
<1>6. ASSUME NEW c \in Call, NEW f \in Field, WriteField(c, f)
      PROVE  LevelInv'
  BY <1>6 DEF WriteField
<1>7. ASSUME NEW c \in Call, NEW f \in Field, ReadField(c, f)
      PROVE  LevelInv'
  BY <1>7 DEF ReadField
<1>8. ASSUME NEW c \in Call, Insert(c)
      PROVE  LevelInv'
  BY <1>8 DEF Insert
<1>9. CASE UNCHANGED vars
  BY <1>9 DEF vars
<1>10. QED
  BY <1>1, <1>2, <1>3, <1>4, <1>5, <1>6, <1>7, <1>8, <1>9 DEF Next

(* The fields: whoever writes one has met those that are about to read it. *)
LEMMA FieldStep ==
  ASSUME Types, Met, FieldInv, [Next]_vars
  PROVE  FieldInv'
<1> SUFFICES ASSUME NEW d \in Call, NEW g \in Field
             PROVE  FieldOK(d, g)'
  BY DEF FieldInv
<1>0. FieldOK(d, g)
  BY DEF FieldInv
<1> USE DEF Types, Met, FieldOK, FieldIsCurrent, BufferIsCurrent, Formatted,
            Control, Go, Active, loggerVars, timeVars
<1>1. CASE Tick
  BY <1>0, <1>1 DEF Tick
<1>2. ASSUME NEW c \in Call, NEW l \in LogLevel, LOG(c, l)
      PROVE  FieldOK(d, g)'
  BY <1>0, <1>2 DEF LOG, setLogLevel
<1>3. ASSUME NEW c \in Call, ReadLevel(c)
      PROVE  FieldOK(d, g)'
  BY <1>0, <1>3 DEF ReadLevel
<1>4. ASSUME NEW c \in Call, Now(c)
      PROVE  FieldOK(d, g)'
  <2>1. now[c] = 0
    BY <1>4 DEF Now
  <2>2. \A e \in Call : now[e] # 0 => now'[e] = now[e]
    BY <1>4, <2>1 DEF Now
  <2>3. QED
    BY <1>0, <1>4, <2>2 DEF Now
<1>5. ASSUME NEW c \in Call, Localtime(c)
      PROVE  FieldOK(d, g)'
  BY <1>0, <1>5 DEF Localtime
<1>6. ASSUME NEW c \in Call, NEW f \in Field, WriteField(c, f)
      PROVE  FieldOK(d, g)'
  <2>1. now[c] # 0
    BY <1>6 DEF WriteField
  <2>2. CASE d = c
    <3>1. CASE todo[c] = {f}
      BY <1>0, <1>6, <2>1, <2>2, <3>1 DEF WriteField
    <3>2. CASE todo[c] # {f}
      BY <1>0, <1>6, <2>1, <2>2, <3>2 DEF WriteField
    <3>3. QED
      BY <3>1, <3>2
  <2>3. CASE d # c
    <3>1. pc[d] = "snprintf" => c \in met[d]
      BY <1>6, <2>3 DEF WriteField
    <3>2. pc[d] # "localtime" /\ pc'[d] = pc[d] /\ todo'[d] = todo[d]
      BY <1>6, <2>3 DEF WriteField
    <3>3. pc[d] = "snprintf" => BufferIsCurrent(d, g)'
      BY <1>0, <1>6, <2>1, <3>1 DEF WriteField
    <3>4. FieldIsCurrent(d, g) => FieldIsCurrent(d, g)'
      BY <1>6 DEF WriteField
    <3>5. QED
      BY <1>0, <3>2, <3>3, <3>4
  <2>4. QED
    BY <2>2, <2>3
<1>7. ASSUME NEW c \in Call, NEW f \in Field, ReadField(c, f)
      PROVE  FieldOK(d, g)'
  <2>1. BufferIsCurrent(d, g) => BufferIsCurrent(d, g)'
    BY <1>7 DEF ReadField
  <2>2. CASE d = c /\ g = f
    BY <1>0, <1>7, <2>1, <2>2 DEF ReadField
  <2>3. CASE ~(d = c /\ g = f)
    <3>1. tm_time'[d][g] = tm_time[d][g] /\ (d # c => pc'[d] = pc[d])
      BY <1>7, <2>3 DEF ReadField
    <3>2. FieldIsCurrent(d, g) => FieldIsCurrent(d, g)'
      BY <1>7, <3>1 DEF ReadField
    <3>3. QED
      BY <1>0, <1>7, <2>1, <2>3, <3>1, <3>2 DEF ReadField
  <2>4. QED
    BY <2>2, <2>3
<1>8. ASSUME NEW c \in Call, Insert(c)
      PROVE  FieldOK(d, g)'
  <2>1. /\ pc'[d] \in {pc[d], "done"}
        /\ d # c => pc'[d] = pc[d]
        /\ pc[c] = "print"
    BY <1>8 DEF Insert
  <2>2. UNCHANGED <<met, now, tm, todo, tm_time>>
    BY <1>8 DEF Insert
  <2>3. QED
    BY <1>0, <2>1, <2>2
<1>9. CASE UNCHANGED vars
  BY <1>0, <1>9 DEF vars
<1>10. QED
  BY <1>1, <1>2, <1>3, <1>4, <1>5, <1>6, <1>7, <1>8, <1>9 DEF Next

-----------------------------------------------------------------------------
(* What is in the output behind the first piece of a call that is printing *)
(* is its own or of calls it has met, and no line has all its pieces while *)
(* its call prints.                                                        *)
Behind(c, i) == \A k \in i .. Len(out) : out[k] \in met[c] \cup {c}
MixInv ==
    /\ \A c \in Call : Printed(c) # {} => Formatted(c)
    /\ \A c \in Call : pc[c] = "print" => \A i \in Printed(c) : Behind(c, i)
    /\ \A c \in Call : pc[c] = "done" =>
          \A i, j \in Printed(c) : \A k \in i .. j : out[k] \in met[c] \cup {c}

(* A step inserts a piece or leaves the output as it is.                   *)
LEMMA PrintedStep ==
  ASSUME Types, NEW c \in Call, Insert(c), NEW d \in Call
  PROVE  /\ Len(out') = Len(out) + 1
         /\ out'[Len(out) + 1] = c
         /\ \A k \in 1 .. Len(out) : out'[k] = out[k]
         /\ Printed(d)' = IF d = c THEN Printed(d) \cup {Len(out) + 1} ELSE Printed(d)
<1>1. out \in Seq(Call) /\ out' = Append(out, c)
  BY DEF Types, Insert
<1>2. /\ Len(out') = Len(out) + 1
      /\ out'[Len(out) + 1] = c
      /\ \A k \in 1 .. Len(out) : out'[k] = out[k]
  BY <1>1, AppendProperties
<1>3. /\ DOMAIN out = 1 .. Len(out)
      /\ DOMAIN out' = 1 .. Len(out) + 1
      /\ Len(out) \in Nat
  BY <1>1, <1>2, AppendProperties, LenProperties
<1>4. Printed(d)' = IF d = c THEN Printed(d) \cup {Len(out) + 1} ELSE Printed(d)
  BY <1>2, <1>3 DEF Printed
<1>5. QED
  BY <1>2, <1>4

(* A piece is inserted behind those of calls under way, which have met its *)
(* call; nothing is inserted behind the last one of a line as part of it.  *)
LEMMA MixStep ==
  ASSUME Types, Met, MixInv, [Next]_vars
  PROVE  MixInv'
<1> USE DEF Types, Control, loggerVars, timeVars
<1>1. CASE \E c \in Call : Insert(c)
  <2>1. PICK c \in Call : Insert(c)
    BY <1>1
  <2> DEFINE L == Len(out)
  <2>2. /\ L \in Nat
        /\ Len(out') = L + 1
        /\ out'[L + 1] = c
        /\ \A k \in 1 .. L : out'[k] = out[k]
    BY <2>1, PrintedStep, LenProperties
  <2>3. \A d \in Call : /\ Printed(d)' = IF d = c THEN Printed(d) \cup {L + 1} ELSE Printed(d)
                        /\ Printed(d) \subseteq 1 .. L
    BY <2>1, PrintedStep, LenProperties DEF Printed
  <2>4. /\ pc[c] = "print"
        /\ pc'[c] \in {"print", "done"}
        /\ \A d \in Call : d # c => pc'[d] = pc[d]
        /\ met' = met
    BY <2>1 DEF Insert, Go
  <2>5. ASSUME NEW d \in Call, pc[d] = "print", NEW i \in Printed(d)'
        PROVE  \A k \in i .. L + 1 : out'[k] \in met[d] \cup {d}
    <3>1. c \in met[d] \cup {d}
      BY <2>4, <2>5 DEF Met, Active
    <3>2. i \in Printed(d) \/ i = L + 1
      BY <2>3, <2>5
    <3>3. CASE i \in Printed(d)
      <4>1. \A k \in i .. L : out[k] \in met[d] \cup {d}
        BY <2>5, <3>3 DEF MixInv, Behind
      <4>2. i \in 1 .. L
        BY <2>3, <3>3
      <4>3. \A k \in i .. L + 1 : (k \in i .. L /\ k \in 1 .. L) \/ k = L + 1
        BY <2>2, <4>2
      <4>4. QED
        BY <2>2, <3>1, <4>1, <4>3
    <3>4. CASE i = L + 1
      <4>1. \A k \in i .. L + 1 : k = L + 1
        BY <2>2, <3>4
      <4>2. QED
        BY <2>2, <3>1, <4>1
    <3>5. QED
      BY <3>2, <3>3, <3>4
  <2>6. ASSUME NEW d \in Call, Printed(d)' # {}
        PROVE  Formatted(d)'
    BY <2>3, <2>4, <2>6 DEF MixInv, Formatted
  <2>7. ASSUME NEW d \in Call, pc'[d] = "print", NEW i \in Printed(d)'
        PROVE  Behind(d, i)'
    BY <2>2, <2>4, <2>5, <2>7 DEF Behind
  <2>8. ASSUME NEW d \in Call, pc'[d] = "done", NEW i \in Printed(d)', NEW j \in Printed(d)',
               NEW k \in i .. j
        PROVE  out'[k] \in met'[d] \cup {d}
    <3>1. i \in 1 .. L + 1 /\ j \in 1 .. L + 1
      BY <2>2, <2>3, <2>8
    <3>2. CASE d = c
      <4>1. k \in i .. L + 1
        BY <2>2, <2>8, <3>1
      <4>2. QED
        BY <2>4, <2>5, <2>8, <3>2, <4>1
    <3>3. CASE d # c
      <4>1. i \in Printed(d) /\ j \in Printed(d) /\ pc[d] = "done"
        BY <2>3, <2>4, <2>8, <3>3
      <4>2. out[k] \in met[d] \cup {d}
        BY <2>8, <4>1 DEF MixInv
      <4>3. k \in 1 .. L
        BY <2>2, <2>3, <2>8, <4>1
      <4>4. QED
        BY <2>2, <2>4, <4>2, <4>3
    <3>4. QED
      BY <3>2, <3>3
  <2>9. QED
    BY <2>6, <2>7, <2>8 DEF MixInv
<1>2. ASSUME out' = out,
             \A c \in Call : Formatted(c) => pc'[c] = pc[c] /\ met[c] \subseteq met'[c]
      PROVE  MixInv'
  <2>1. \A c \in Call : Printed(c)' = Printed(c)
    BY <1>2 DEF Printed
  <2>2. \A c \in Call : Printed(c) # {} =>
           /\ Formatted(c)
           /\ pc'[c] = pc[c]
           /\ met[c] \subseteq met'[c]
    BY <1>2 DEF MixInv
  <2>3. \A c \in Call : Printed(c)' # {} => Formatted(c)'
    BY <2>1, <2>2 DEF Formatted
  <2>4. ASSUME NEW c \in Call, pc'[c] = "print", NEW i \in Printed(c)'
        PROVE  Behind(c, i)'
    <3>1. i \in Printed(c) /\ pc[c] = "print" /\ met[c] \subseteq met'[c]
      BY <2>1, <2>2, <2>4
    <3>2. Behind(c, i)
      BY <3>1 DEF MixInv
    <3>3. QED
      BY <1>2, <3>1, <3>2 DEF Behind
  <2>5. ASSUME NEW c \in Call, pc'[c] = "done", NEW i \in Printed(c)', NEW j \in Printed(c)',
               NEW k \in i .. j
        PROVE  out'[k] \in met'[c] \cup {c}
    BY <1>2, <2>1, <2>2, <2>5 DEF MixInv
  <2>6. QED
    BY <2>3, <2>4, <2>5 DEF MixInv
<1>3. ASSUME NEW c \in Call, NEW l \in LogLevel, LOG(c, l)
      PROVE  MixInv'
  BY <1>2, <1>3 DEF LOG, Go, Formatted
<1>4. CASE Tick \/ UNCHANGED vars
  BY <1>2, <1>4 DEF Tick, vars, Formatted
<1>5. ASSUME NEW c \in Call, ReadLevel(c) \/ Now(c) \/ Localtime(c)
      PROVE  MixInv'
  BY <1>2, <1>5 DEF ReadLevel, Now, Localtime, Go, Formatted
<1>6. ASSUME NEW c \in Call, NEW f \in Field, WriteField(c, f) \/ ReadField(c, f)
      PROVE  MixInv'
  BY <1>2, <1>6 DEF WriteField, ReadField, Go, Formatted
<1>7. QED
  BY <1>1, <1>3, <1>4, <1>5, <1>6 DEF Next

(* The pieces of a call that is done are as many as make a line.           *)
CountInv ==
    \A c \in Call : /\ IsFiniteSet(Printed(c))
                    /\ pc[c] = "done" => Cardinality(Printed(c)) = Pieces

(* Each insertion adds one piece.                                          *)
LEMMA CountStep ==
  ASSUME Types, CountInv, [Next]_vars
  PROVE  CountInv'
<1> USE DEF Types, Control, loggerVars, timeVars
<1>1. CASE \E c \in Call : Insert(c)
  <2>1. PICK c \in Call : Insert(c)
    BY <1>1
  <2>2. \A d \in Call :
           Printed(d)' = IF d = c THEN Printed(d) \cup {Len(out) + 1} ELSE Printed(d)
    BY <2>1, PrintedStep
  <2>3. Len(out) + 1 \notin Printed(c)
    BY LenProperties DEF Printed
  <2>4. /\ IsFiniteSet(Printed(c)')
        /\ Cardinality(Printed(c)') = Cardinality(Printed(c)) + 1
    BY <2>2, <2>3, FS_AddElement DEF CountInv
  <2>5. /\ pc'[c] = "done" => Cardinality(Printed(c)) + 1 = Pieces
        /\ \A d \in Call : d # c => pc'[d] = pc[d]
    BY <2>1 DEF Insert, Go
  <2>6. QED
    BY <2>2, <2>4, <2>5 DEF CountInv
<1>2. ASSUME out' = out, \A c \in Call : pc'[c] = "done" => pc[c] = "done"
      PROVE  CountInv'
  BY <1>2 DEF CountInv, Printed
<1>3. ASSUME NEW c \in Call, NEW l \in LogLevel, LOG(c, l)
      PROVE  CountInv'
  BY <1>2, <1>3 DEF LOG, Go
<1>4. CASE Tick \/ UNCHANGED vars
  BY <1>2, <1>4 DEF Tick, vars
<1>5. ASSUME NEW c \in Call, ReadLevel(c) \/ Now(c) \/ Localtime(c)
      PROVE  CountInv'
  BY <1>2, <1>5 DEF ReadLevel, Now, Localtime, Go
<1>6. ASSUME NEW c \in Call, NEW f \in Field, WriteField(c, f) \/ ReadField(c, f)
      PROVE  CountInv'
  BY <1>2, <1>6 DEF WriteField, ReadField, Go
<1>7. QED
  BY <1>1, <1>3, <1>4, <1>5, <1>6 DEF Next

-----------------------------------------------------------------------------
(* The types, one caller of localtime() at a time, and whole lines.        *)
THEOREM TypeCorrect == Spec => []TypeOK
<1>1. Init => Types /\ Met /\ CountInv
  <2> SUFFICES ASSUME Init
               PROVE  Types /\ Met /\ CountInv
    OBVIOUS
  <2>1. Types /\ Met
    BY LoggerAssumption, EmptySeq DEF Init, Types, Met, Control, Active, Time
  <2>2. CountInv
    <3>1. \A c \in Call : Printed(c) = {}
      BY EmptySeq DEF Init, Printed
    <3>2. QED
      BY <3>1, FS_EmptySet DEF Init, CountInv
  <2>3. QED
    BY <2>1, <2>2
<1>2. Types /\ Met /\ CountInv /\ [Next]_vars => (Types /\ Met /\ CountInv)'
  BY TypesStep, MetStep, CountStep
<1>3. Types /\ Met /\ CountInv => TypeOK
  BY DEF Types, Met, CountInv, TypeOK
<1>4. QED
  BY <1>1, <1>2, <1>3, PTL DEF Spec

(* What a line says, of level and time, is never of a call that was over   *)
(* before its own began, whatever the calls and the order of their steps.  *)
THEOREM LinesCurrent == Spec => []LineIsCurrent
<1>1. Init => Types /\ Met /\ LevelInv /\ FieldInv
  BY LoggerAssumption, EmptySeq
     DEF Init, Types, Met, LevelInv, FieldInv, FieldOK, Control, Active, Formatted, Time
<1>2. Types /\ Met /\ LevelInv /\ FieldInv /\ [Next]_vars
      => (Types /\ Met /\ LevelInv /\ FieldInv)'
  BY TypesStep, MetStep, LevelStep, FieldStep
<1>3. Types /\ LevelInv /\ FieldInv => LineIsCurrent
  BY DEF Types, LevelInv, FieldInv, FieldOK, LineIsCurrent, Formatted
<1>4. QED
  BY <1>1, <1>2, <1>3, PTL DEF Spec

(* A call that overlaps no other prints its own level and time in one piece*)
(* of the output, whatever the calls before it have done to each other.    *)
THEOREM AloneCorrect == Spec => []AloneIsExact
<1>1. Init => Types /\ Met /\ MixInv
  BY LoggerAssumption, EmptySeq
     DEF Init, Types, Met, MixInv, Printed, Control, Active, Formatted, Time
<1>2. Types /\ Met /\ MixInv /\ [Next]_vars => (Types /\ Met /\ MixInv)'
  BY TypesStep, MetStep, MixStep
<1>3. Types /\ MixInv /\ LineIsCurrent => AloneIsExact
  <2> SUFFICES ASSUME Types, MixInv, LineIsCurrent,
                      NEW c \in Call, pc[c] = "done", met[c] = {}
               PROVE  /\ pre[c] = level[c]
                      /\ \A f \in Field : tm_time[c][f] = now[c]
                      /\ \A i, j \in Printed(c) : \A k \in i .. j : k \in Printed(c)
    BY DEF AloneIsExact
  <2>1. pre[c] = level[c] /\ \A f \in Field : tm_time[c][f] = now[c]
    BY DEF LineIsCurrent, LevelIsCurrent, FieldIsCurrent, Formatted
  <2>2. ASSUME NEW i \in Printed(c), NEW j \in Printed(c), NEW k \in i .. j
        PROVE  k \in Printed(c)
    <3>1. out[k] = c
      BY <2>2 DEF MixInv
    <3>2. k \in DOMAIN out
      BY <2>2, LenProperties DEF Printed, Types
    <3>3. QED
      BY <3>1, <3>2 DEF Printed
  <2>3. QED
    BY <2>1, <2>2
<1>4. QED
  BY <1>1, <1>2, <1>3, LinesCurrent, PTL DEF Spec

=============================================================================
