------------------------------- MODULE Logger -------------------------------
(***************************************************************************)
(* The LOG_INFO, LOG_ERROR, LOG_FATAL and LOG_DEBUG macros, called by any  *)
(* thread at any time.  A call stores its level in the one Logger there    *)
(* is, reads it back in log(), formats the time through the static buffer  *)
(* of localtime(), and inserts a line into std::cout piece by piece; no    *)
(* lock is held across two of these steps.                                 *)
(*                                                                         *)
(* A call is a process of its own: the calls of one thread are calls of    *)
(* which none starts before the other is done.                             *)
(***************************************************************************)
EXTENDS Naturals, Sequences, FiniteSets, TLC

CONSTANTS
    Call,       \* the calls that are made
    LogLevel,   \* the levels in use
    INFO,       \* the first of them, whose value is 0
    Field,      \* the fields of a struct tm
    Pieces,     \* insertions into std::cout that make a line
    MaxTime     \* the clock shows 1 .. MaxTime

ASSUME LoggerAssumption ==
    /\ INFO \in LogLevel
    /\ Pieces \in Nat \ {0}
    /\ MaxTime \in Nat \ {0}

VARIABLES
    pc,         \* of each call, see Control
    logLevel_,  \* in the Logger
    clock,      \* what time() returns
    tm,         \* localtime()'s buffer
    level,      \* the level the call is for
    pre,        \* the level it has read
    now,        \* the time it has read, or 0
    todo,       \* fields of tm it has still to write, or to read
    tm_time,    \* what it has read of tm
    met,        \* the calls that were under way together with it (history)
    out         \* the pieces inserted so far, each by its call

loggerVars == <<logLevel_, level, pre>>
timeVars == <<tm, now, todo, tm_time>>
vars == <<pc, loggerVars, clock, timeVars, met, out>>

Control == {"start",
            "log",        \* the level is stored
            "now",        \* in the statement that prints
            "to_String",  \* the time is read
            "localtime",  \* inside localtime()
            "snprintf",   \* reading the fields
            "print",
            "done"}

Time == 1 .. MaxTime
NoLevel == "none"
Active == {c \in Call : pc[c] \notin {"start", "done"}}
Go(c, to) == pc' = [pc EXCEPT ![c] = to]
Printed(c) == {i \in DOMAIN out : out[i] = c}

Init ==
    /\ pc = [c \in Call |-> "start"]
    /\ logLevel_ = INFO
    /\ clock = 1
    /\ tm = [f \in Field |-> 0]
    /\ level = [c \in Call |-> NoLevel] /\ pre = [c \in Call |-> NoLevel]
    /\ now = [c \in Call |-> 0]
    /\ todo = [c \in Call |-> {}]
    /\ tm_time = [c \in Call |-> [f \in Field |-> 0]]
    /\ met = [c \in Call |-> {}]
    /\ out = <<>>

Tick ==
    /\ clock < MaxTime
    /\ clock' = clock + 1
    /\ UNCHANGED <<pc, loggerVars, timeVars, met, out>>

-----------------------------------------------------------------------------
(* Mutant: the macro stores the level only if none is stored yet.          *)
setLogLevel_Once(l) == logLevel_' = IF logLevel_ = INFO THEN l ELSE logLevel_

setLogLevel(l) == logLevel_' = l

(* The macro for level l, up to the call of log().                         *)
LOG(c, l) ==
    /\ pc[c] = "start"
    /\ setLogLevel(l)
    /\ level' = [level EXCEPT ![c] = l]
    /\ met' = [d \in Call |-> IF d = c THEN Active
                              ELSE IF d \in Active THEN met[d] \cup {c}
                              ELSE met[d]]
    /\ Go(c, "log")
    /\ UNCHANGED <<pre, clock, timeVars, out>>

(* log(): the switch over logLevel_.                                       *)
ReadLevel(c) ==
    /\ pc[c] = "log"
    /\ pre' = [pre EXCEPT ![c] = logLevel_]
    /\ Go(c, "now")
    /\ UNCHANGED <<logLevel_, level, clock, timeVars, met, out>>

Now(c) ==
    /\ pc[c] = "now"
    /\ now' = [now EXCEPT ![c] = clock]
    /\ Go(c, "to_String")
    /\ UNCHANGED <<loggerVars, clock, tm, todo, tm_time, met, out>>

(* Mutant: to_String() trusts what is in the buffer.                       *)
Localtime_Cached(c) ==
    /\ pc[c] = "to_String"
    /\ todo' = [todo EXCEPT ![c] = Field]
    /\ Go(c, "snprintf")
    /\ UNCHANGED <<loggerVars, clock, tm, now, tm_time, met, out>>

(* localtime() is called; the C library lets in one thread at a time.      *)
Localtime(c) ==
    /\ pc[c] = "to_String"
    /\ \A d \in Call : pc[d] # "localtime"
    /\ todo' = [todo EXCEPT ![c] = Field]
    /\ Go(c, "localtime")
    /\ UNCHANGED <<loggerVars, clock, tm, now, tm_time, met, out>>

(* It writes a field of its buffer; after the last one it returns.         *)
WriteField(c, f) ==
    /\ pc[c] = "localtime"
    /\ f \in todo[c]
    /\ tm' = [tm EXCEPT ![f] = now[c]]
    /\ IF todo[c] = {f}
         THEN todo' = [todo EXCEPT ![c] = Field] /\ Go(c, "snprintf")
         ELSE todo' = [todo EXCEPT ![c] = @ \ {f}] /\ UNCHANGED pc
    /\ UNCHANGED <<loggerVars, clock, now, tm_time, met, out>>

(* The arguments of snprintf() are evaluated, in any order.                *)
ReadField(c, f) ==
    /\ pc[c] = "snprintf"
    /\ f \in todo[c]
    /\ tm_time' = [tm_time EXCEPT ![c][f] = tm[f]]
    /\ todo' = [todo EXCEPT ![c] = @ \ {f}]
    /\ IF todo[c] = {f} THEN Go(c, "print") ELSE UNCHANGED pc
    /\ UNCHANGED <<loggerVars, clock, tm, now, met, out>>

(* Mutant: std::endl is left out.                                          *)
Insert_NoEndl(c) ==
    /\ pc[c] = "print"
    /\ out' = Append(out, c)
    /\ IF Cardinality(Printed(c)) + 2 = Pieces THEN Go(c, "done") ELSE UNCHANGED pc
    /\ UNCHANGED <<loggerVars, clock, timeVars, met>>

(* operator<<: the next piece of the line, the last one std::endl.         *)
Insert(c) ==
    /\ pc[c] = "print"
    /\ out' = Append(out, c)
    /\ IF Cardinality(Printed(c)) + 1 = Pieces THEN Go(c, "done") ELSE UNCHANGED pc
    /\ UNCHANGED <<loggerVars, clock, timeVars, met>>

Next ==
    \/ Tick
    \/ \E c \in Call :
          \/ \E l \in LogLevel : LOG(c, l)
          \/ ReadLevel(c) \/ Now(c) \/ Localtime(c) \/ Insert(c)
          \/ \E f \in Field : WriteField(c, f) \/ ReadField(c, f)

Spec == Init /\ [][Next]_vars

-----------------------------------------------------------------------------
(* The types; localtime() has one caller; and a call that is done has its  *)
(* whole line in the output.                                               *)
TypeOK ==
    /\ pc \in [Call -> Control]
    /\ logLevel_ \in LogLevel
    /\ clock \in Time
    /\ tm \in [Field -> Time \cup {0}]
    /\ level \in [Call -> LogLevel \cup {NoLevel}]
    /\ pre \in [Call -> LogLevel \cup {NoLevel}]
    /\ now \in [Call -> Time \cup {0}]
    /\ todo \in [Call -> SUBSET Field]
    /\ tm_time \in [Call -> [Field -> Time \cup {0}]]
    /\ met \in [Call -> SUBSET Call]
    /\ out \in Seq(Call)
    /\ \A c, d \in Call : pc[c] = "localtime" /\ pc[d] = "localtime" => c = d
    /\ \A c \in Call : pc[c] = "done" => Cardinality(Printed(c)) = Pieces

(* Before anything of its line is printed.                                 *)
Formatted(c) == pc[c] \in {"print", "done"}

(* What the call got from shared memory is of its own call or of one that  *)
(* was under way at the same time.                                         *)
LevelIsCurrent(c) == \E d \in met[c] \cup {c} : level[d] = pre[c]
FieldIsCurrent(c, f) ==
    \E d \in met[c] \cup {c} : now[d] # 0 /\ now[d] = tm_time[c][f]

(* A line never says the level, or any field of the time, of a call that   *)
(* was over before its own began: what the Logger and the static buffer    *)
(* keep cannot be stale, though it can be another thread's, and of several *)
(* threads at once.                                                        *)
LineIsCurrent ==
    \A c \in Call : Formatted(c) =>
        LevelIsCurrent(c) /\ \A f \in Field : FieldIsCurrent(c, f)

(* A call that no other one overlaps prints its own level, the time that   *)
(* it has read, and a line that nothing else is mixed into, even if all    *)
(* the calls before it were mixed up with one another.                     *)
AloneIsExact ==
    \A c \in Call : pc[c] = "done" /\ met[c] = {} =>
        /\ pre[c] = level[c]
        /\ \A f \in Field : tm_time[c][f] = now[c]
        /\ \A i, j \in Printed(c) : \A k \in i .. j : k \in Printed(c)

(* The calls are interchangeable.                                          *)
Symmetry == Permutations(Call)

=============================================================================
