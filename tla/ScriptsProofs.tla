--------------------------- MODULE ScriptsProofs ---------------------------
(***************************************************************************)
(* Proofs about Scripts: for every set of script trees, a script that has  *)
(* not caught an error runs in its own place, include runs a file once,    *)
(* and containers carry the marks and directories of the script that       *)
(* creates them; and a release build runs the core scripts it holds.       *)
(*                                                                         *)
(* Each statement changes the stack of running scripts in one of six ways  *)
(* (Moves).  The invariants speak of the stack, so they are shown for the  *)
(* six moves and not for every kind of statement.                          *)
(***************************************************************************)
EXTENDS Scripts, Induction, SequenceTheorems, TLAPS

Frame(U) ==
  [file : U, pc : Nat \ {0}, how : U, guarded : U, saved : [script : U, dir : U, cwd : U],
   outer : U, leaked : BOOLEAN]

Shape == \E U : stack \in Seq(Frame(U))

\* Two states of one call
Same(a, b) ==
  /\ a.file = b.file /\ a.how = b.how /\ a.guarded = b.guarded
  /\ a.saved = b.saved /\ a.outer = b.outer /\ a.leaked = b.leaked

\* s is t, but that statements may have been executed
Alike(s, t) == Len(s) = Len(t) /\ \A i \in 1..Len(t) : Same(s[i], t[i])

-----------------------------------------------------------------------------
(* The moves of the stack                                                  *)

\* The flag after a statement that fails: includeexternal may have set it.
Raised == external' = external \/ external' = TRUE

\* The first k calls are left, the last of them having caught an error.
LeftWith(s, k) == [SubSeq(s, 1, k) EXCEPT ![k].leaked = TRUE]

Stays ==
  /\ UNCHANGED <<stack, place, external, caught>>
  /\ \/ phase' = phase
     \/ /\ stack = << >> /\ phase # "failed"
        /\ phase' \in Phases \union {"done", "failed"}

Advances ==
  /\ Running /\ stack' = Advanced /\ phase' = phase
  /\ UNCHANGED place
  /\ caught => caught'
  /\ external' = external \/ (external' = TRUE /\ caught')

Calls ==
  \E f, how, guard :
    /\ \/ Running /\ phase' = phase /\ Enter(Advanced, f, how, guard)
       \/ /\ stack = << >> /\ phase \in Phases \union {"start"} /\ phase' \in Phases
          /\ ~ guard /\ how = "host" /\ Enter(<< >>, f, how, guard)
    /\ external' = IF how = "external" THEN TRUE ELSE external
    /\ caught' = caught

Leaves == Return

Unwinds ==
  \E k \in 1..Len(stack) :
    /\ Running /\ phase' = phase
    /\ stack[k].guarded
    /\ stack' = LeftWith(stack, k - 1)
    /\ UNCHANGED place
    /\ Raised /\ caught'

Stops ==
  /\ Running /\ stack' = << >> /\ phase' = "failed"
  /\ UNCHANGED place
  /\ Raised /\ caught' = caught

Idle ==
  /\ phase \in Phases \union {"start", "done", "failed"}
  /\ phase \in {"start", "done", "failed"} => stack = << >>

Moves == Stays \/ Advances \/ Calls \/ Leaves \/ Unwinds \/ Stops

\* An error makes the calling script go on, or ends calls, or the program.
LEMMA FailMoves ==
  ASSUME Shape, Running, NEW guard, NEW deep, Fail(guard, deep), UNCHANGED place,
         external' = external \/ (deep = TRUE /\ external' = TRUE)
  PROVE  Advances \/ Unwinds \/ Stops
<1> DEFINE guards == {i \in 1..Len(stack) : stack[i].guarded}
           k      == CHOOSE i \in guards : \A j \in guards : i >= j
<1>1. CASE /\ guard /\ stack' = Advanced
           /\ caught' = (caught \/ deep) /\ UNCHANGED phase
  <2>1. (caught => caught') /\ (external' = external \/ (external' = TRUE /\ caught'))
    BY <1>1
  <2> QED BY <1>1, <2>1 DEF Advances
<1>2. CASE /\ ~ guard /\ guards # {}
           /\ stack' = [SubSeq(stack, 1, k - 1) EXCEPT ![k - 1].leaked = TRUE]
           /\ caught' = TRUE /\ UNCHANGED phase
  <2>1. Len(stack) \in Nat
    BY DEF Shape
  <2>2. guards \in SUBSET (1..Len(stack))
    OBVIOUS
  <2>3. \E i \in guards : \A j \in guards : j <= i
    <3> HIDE DEF guards
    <3> QED BY <1>2, <2>1, <2>2, GreatestNat
  <2>4. \E i \in guards : \A j \in guards : i >= j
    BY <2>1, <2>3
  <2>5. k \in guards
    BY <2>4
  <2>6. k \in 1..Len(stack) /\ stack[k].guarded
    BY <2>5
  <2> HIDE DEF k
  <2> QED BY <1>2, <2>6 DEF Unwinds, Raised, LeftWith
<1>3. CASE ~ guard /\ guards = {} /\ stack' = << >> /\ phase' = "failed" /\ UNCHANGED caught
  BY <1>3 DEF Stops, Raised
<1> QED BY <1>1, <1>2, <1>3 DEF Fail

\* Running a chunk
LEMMA RunMoves ==
  ASSUME Shape, Running, NEW f, NEW how, NEW guard, Run(f, how, guard),
         external' = IF how = "external" THEN TRUE ELSE external
  PROVE  Advances \/ Calls \/ Unwinds \/ Stops
<1>1. CASE Enter(Advanced, f, how, guard) /\ UNCHANGED <<phase, caught>>
  BY <1>1 DEF Calls
<1>2. CASE Fail(guard, TRUE) /\ UNCHANGED place
  BY <1>2, FailMoves
<1> QED BY <1>1, <1>2 DEF Run

\* The host runs a chunk.
LEMMA StartMoves ==
  ASSUME stack = << >>, phase \in Phases \union {"start"}, NEW f, NEW next \in Phases,
         Start(f, next), external' = external, caught' = caught
  PROVE  Calls \/ Stays
<1>1. CASE phase' = next /\ Enter(<< >>, LoadFile(f), "host", FALSE)
  <2>1. external' = IF "host" = "external" THEN TRUE ELSE external
    OBVIOUS
  <2> HIDE DEF LoadFile, Phases
  <2> QED BY <1>1, <2>1 DEF Calls
<1>2. CASE phase' = "failed" /\ UNCHANGED <<stack, place>>
  <2>1. phase # "failed"
    BY DEF Phases
  <2> QED BY <1>2, <2>1 DEF Stays
<1> QED BY <1>1, <1>2 DEF Start

\* What the host does between scripts
LEMMA HostMoves ==
  ASSUME \/ RunCore \/ PrepareEnvironment \/ PreloadModule \/ PreloadAgain \/ RequireModule
         \/ RunSystemScript \/ RunUserScript \/ Finish
  PROVE  Moves
<1>1. stack = << >> /\ phase \in Phases \union {"start"} /\ external' = external /\ caught' = caught
  BY DEF RunCore, PrepareEnvironment, PreloadModule, PreloadAgain, RequireModule,
         RunSystemScript, RunUserScript, Finish, NextModule, Idles, Phases, api, ghosts
<1>2. CASE \E f : \E next \in Phases : Start(f, next)
  BY <1>1, <1>2, StartMoves DEF Moves
<1>3. CASE UNCHANGED <<stack, place>> /\ phase' \in Phases \union {"done"}
  BY <1>1, <1>3 DEF Moves, Stays, Phases
<1>4. \/ \E f : \E next \in Phases : Start(f, next)
      \/ UNCHANGED <<stack, place>> /\ phase' \in Phases \union {"done"}
  <2>1. /\ "core" \in Phases /\ "preload" \in Phases /\ "system" \in Phases
        /\ "user" \in Phases
    BY DEF Phases
  <2> HIDE DEF Phases
  <2>2. CASE RunCore
    BY <2>1, <2>2 DEF RunCore
  <2>3. CASE PreloadModule
    BY <2>1, <2>3 DEF PreloadModule
  <2>4. CASE RequireModule
    BY <2>1, <2>4 DEF RequireModule
  <2>5. CASE RunSystemScript
    BY <2>1, <2>5 DEF RunSystemScript
  <2>6. CASE RunUserScript
    BY <2>1, <2>6 DEF RunUserScript
  <2>7. CASE PrepareEnvironment \/ PreloadAgain \/ Finish
    BY <2>1, <2>7 DEF PrepareEnvironment, PreloadAgain, Finish, NextModule, Idles
  <2> QED BY <2>2, <2>3, <2>4, <2>5, <2>6, <2>7
<1> QED BY <1>2, <1>3, <1>4

LEMMA NextMoves == ASSUME Shape, Idle, [Next]_vars PROVE Moves
<1>1. CASE UNCHANGED vars
  <2>1. UNCHANGED <<stack, place, external, caught>>
    BY <1>1 DEF vars, api, ghosts
  <2>2. phase' = phase
    BY <1>1 DEF vars
  <2> QED BY <2>1, <2>2 DEF Moves, Stays
<1>2. CASE \/ RunCore \/ PrepareEnvironment \/ PreloadModule \/ PreloadAgain \/ RequireModule
           \/ RunSystemScript \/ RunUserScript \/ Finish
  BY <1>2, HostMoves
<1>5. CASE IncludeNew
  <2>1. PICK f : Run(LoadFile(f), "include", Statement.guard)
    BY <1>5 DEF IncludeNew
  <2>2. Running /\ external' = external
    BY <1>5 DEF IncludeNew, IsAt, api
  <2>3. external' = IF "include" = "external" THEN TRUE ELSE external
    BY <2>2
  <2> QED BY <2>1, <2>2, <2>3, RunMoves DEF Moves
<1>6. CASE IncludeAgain
  BY <1>6 DEF IncludeAgain, IsAt, Moves, Advances, api, ghosts
<1>7. CASE IncludeMissing
  BY <1>7, FailMoves DEF IncludeMissing, NotFound, IsAt, Moves, api
<1>8. CASE IncludeExternal
  <2>1. PICK f : Run(LoadFile(f), "external", Statement.guard)
    BY <1>8 DEF IncludeExternal
  <2>2. Running /\ external' = TRUE
    BY <1>8 DEF IncludeExternal, IsAt
  <2> QED BY <2>1, <2>2, RunMoves DEF Moves
<1>9. CASE IncludeExternalMissing
  BY <1>9, FailMoves DEF IncludeExternalMissing, NotFound, IsAt, Moves, api
<1>10. CASE DoFile
  <2>1. Running /\ external' = external /\ Run(LoadFile(Statement.arg), "dofile", Statement.guard)
    BY <1>10 DEF DoFile, IsAt, api
  <2>2. external' = IF "dofile" = "external" THEN TRUE ELSE external
    BY <2>1
  <2> HIDE DEF LoadFile, Statement
  <2> QED BY <2>1, <2>2, RunMoves DEF Moves
<1>11. CASE DoFileMissing
  BY <1>11, FailMoves DEF DoFileMissing, NotFound, IsAt, Moves, api
<1>12. CASE Workspace
  BY <1>12 DEF Workspace, IsAt, Moves, Advances, ghosts
<1>13. CASE Project
  BY <1>13 DEF Project, IsAt, Moves, Advances, ghosts
<1>14. CASE Group
  BY <1>14 DEF Group, IsAt, Moves, Advances, ghosts
<1>15. CASE OutOfScope
  BY <1>15, FailMoves DEF OutOfScope, IsAt, Moves, api
<1>16. CASE RaiseError
  BY <1>16, FailMoves DEF RaiseError, IsAt, Moves, api
<1>17. CASE Return
  BY <1>17 DEF Moves, Leaves
<1> QED BY <1>1, <1>2, <1>5, <1>6, <1>7, <1>8, <1>9, <1>10, <1>11, <1>12, <1>13,
           <1>14, <1>15, <1>16, <1>17 DEF Next

-----------------------------------------------------------------------------
(* What the moves do to a stack                                            *)

LEMMA AdvancedAlike ==
  ASSUME NEW U, stack \in Seq(Frame(U)), stack # << >>
  PROVE  Advanced \in Seq(Frame(U)) /\ Alike(Advanced, stack)
<1>1. Len(stack) \in Nat /\ Len(stack) \in 1..Len(stack)
  OBVIOUS
<1>2. \A i \in 1..Len(stack) : stack[i] \in Frame(U)
  OBVIOUS
<1>3. Advanced = [i \in 1..Len(stack) |-> Advanced[i]]
  BY DEF Advanced
<1>4. ASSUME NEW i \in 1..Len(stack)
      PROVE  Advanced[i] \in Frame(U) /\ Same(Advanced[i], stack[i])
  BY <1>1, <1>2 DEF Advanced, Frame, Same
<1>5. Advanced \in Seq(Frame(U)) /\ Len(Advanced) = Len(stack)
  <2> HIDE DEF Advanced
  <2> QED BY <1>1, <1>3, <1>4
<1> QED BY <1>4, <1>5 DEF Alike

\* A call is made: the stack gets longer by one.
LEMMA Pushed ==
  ASSUME NEW U, NEW c \in Seq(Frame(U)), NEW fr \in Frame(U)
  PROVE  /\ Append(c, fr) \in Seq(Frame(U)) /\ Len(Append(c, fr)) = Len(c) + 1
         /\ Len(c) \in Nat
         /\ \A i \in 1..Len(c) : Append(c, fr)[i] = c[i]
         /\ Append(c, fr)[Len(c) + 1] = fr
OBVIOUS

\* Calls end: the first k of them are left.
LEMMA Cut ==
  ASSUME NEW U, NEW s \in Seq(Frame(U)), NEW k \in 0..Len(s)
  PROVE  /\ SubSeq(s, 1, k) \in Seq(Frame(U)) /\ Len(SubSeq(s, 1, k)) = k
         /\ \A i \in 1..k : SubSeq(s, 1, k)[i] = s[i]
OBVIOUS

\* a is b, having caught an error
Leaked(a, b) ==
  /\ a.leaked /\ a.file = b.file /\ a.how = b.how
  /\ a.guarded = b.guarded /\ a.saved = b.saved /\ a.outer = b.outer

\* ... and the last of them has caught an error.
LEMMA CutLeaked ==
  ASSUME NEW U, NEW s \in Seq(Frame(U)), NEW k \in 1..Len(s),
         NEW t, t = LeftWith(s, k)
  PROVE  /\ t \in Seq(Frame(U)) /\ Len(t) = k
         /\ \A i \in 1..(k - 1) : t[i] = s[i]
         /\ Leaked(t[k], s[k])
<1> DEFINE c == SubSeq(s, 1, k)
<1>1. c \in Seq(Frame(U)) /\ Len(c) = k /\ \A i \in 1..k : c[i] = s[i] /\ k \in Nat
  BY Cut
<1>d. DOMAIN c = 1..k /\ t = [c EXCEPT ![k].leaked = TRUE] /\ k \in 1..k
  BY <1>1 DEF LeftWith
<1> HIDE DEF c
<1>2. t = [i \in 1..k |-> t[i]]
  BY <1>d
<1>3. \A i \in 1..(k - 1) : t[i] = s[i]
  <2> SUFFICES ASSUME NEW i \in 1..(k - 1) PROVE t[i] = s[i]
    OBVIOUS
  <2>1. i \in 1..k /\ i # k
    BY <1>1
  <2> QED BY <1>1, <1>d, <2>1
<1>4. s[k] \in Frame(U) /\ t[k] = [s[k] EXCEPT !.leaked = TRUE]
  <2>1. c[k] = s[k] /\ c[k] \in Frame(U)
    BY <1>1, <1>d
  <2>2. t[k] = [c[k] EXCEPT !.leaked = TRUE]
    BY <1>d
  <2> QED BY <2>1, <2>2
<1>5. t[k] \in Frame(U) /\ Leaked(t[k], s[k])
  BY <1>4 DEF Frame, Leaked
<1>6. \A i \in 1..k : t[i] \in Frame(U)
  <2>1. ASSUME NEW i \in 1..k, i # k PROVE t[i] \in Frame(U)
    <3>1. i \in 1..(k - 1) /\ i \in 1..Len(s)
      BY <2>1
    <3> QED BY <1>3, <3>1
  <2> QED BY <1>5, <2>1
<1>7. t \in Seq(Frame(U)) /\ Len(t) = k
  <2>1. k \in Nat
    BY <1>1
  <2>2. t \in [1..k -> Frame(U)]
    BY <1>2, <1>6
  <2> QED BY <2>1, <2>2
<1> QED BY <1>3, <1>5, <1>7

-----------------------------------------------------------------------------
(* Places                                                                  *)

\* Where a script is when it starts: see Enter.
Expected(fr) ==
  [script |-> fr.file, dir |-> DirOf(fr.file),
   cwd |-> IF Embedded(fr.file) THEN fr.saved.cwd ELSE Normal(DirOf(fr.file))]

\* What a call will put back is the place of its caller ...
Nested(s) == \A i \in 2..Len(s) : ~ s[i - 1].leaked => s[i].saved = Expected(s[i - 1])

\* ... and the running script is in its own; the outermost has no pcall around it.
AtHome(s, here) == s # << >> /\ ~ s[Len(s)].leaked => here = Expected(s[Len(s)])

Outermost(s) == s # << >> => ~ s[1].guarded

PlacesOf(s, here) == Nested(s) /\ AtHome(s, here) /\ Outermost(s)

LEMMA AlikePlaces ==
  ASSUME NEW U, NEW s \in Seq(Frame(U)), NEW t \in Seq(Frame(U)), Alike(s, t),
         NEW here, PlacesOf(t, here)
  PROVE  PlacesOf(s, here)
<1>1. Len(s) = Len(t) /\ Len(t) \in Nat /\ \A i \in 1..Len(t) : Same(s[i], t[i])
  BY DEF Alike
<1>2. \A i \in 1..Len(t) : Expected(s[i]) = Expected(t[i])
  BY <1>1 DEF Expected, Same
<1>3. Nested(s)
  <2> SUFFICES ASSUME NEW i \in 2..Len(s), ~ s[i - 1].leaked
               PROVE  s[i].saved = Expected(s[i - 1])
    BY DEF Nested
  <2>1. i \in 1..Len(t) /\ i - 1 \in 1..Len(t) /\ i \in 2..Len(t)
    BY <1>1
  <2>2. ~ t[i - 1].leaked /\ s[i].saved = t[i].saved
    BY <1>1, <2>1 DEF Same
  <2> QED BY <1>2, <2>1, <2>2 DEF PlacesOf, Nested
<1>4. AtHome(s, here)
  <2> SUFFICES ASSUME s # << >>, ~ s[Len(s)].leaked PROVE here = Expected(s[Len(s)])
    BY DEF AtHome
  <2>1. Len(t) \in 1..Len(t) /\ t # << >>
    BY <1>1
  <2>2. ~ t[Len(t)].leaked
    BY <1>1, <2>1 DEF Same
  <2> QED BY <1>1, <1>2, <2>1, <2>2 DEF PlacesOf, AtHome
<1>5. Outermost(s)
  <2> SUFFICES ASSUME s # << >> PROVE ~ s[1].guarded
    BY DEF Outermost
  <2>1. 1 \in 1..Len(t) /\ t # << >>
    BY <1>1
  <2> QED BY <1>1, <2>1 DEF PlacesOf, Outermost, Same
<1> QED BY <1>3, <1>4, <1>5 DEF PlacesOf

LEMMA PushPlaces ==
  ASSUME NEW U, NEW c \in Seq(Frame(U)), NEW fr \in Frame(U), NEW here,
         PlacesOf(c, here), fr.saved = here, c = << >> => ~ fr.guarded
  PROVE  PlacesOf(Append(c, fr), Expected(fr))
<1> DEFINE s == Append(c, fr)
<1>1. /\ s \in Seq(Frame(U)) /\ Len(s) = Len(c) + 1 /\ Len(c) \in Nat
      /\ \A i \in 1..Len(c) : s[i] = c[i] /\ s[Len(c) + 1] = fr
  BY Pushed
<1>e. Len(c) = 0 <=> c = << >>
  OBVIOUS
<1> HIDE DEF s
<1>2. Nested(s)
  <2> SUFFICES ASSUME NEW i \in 2..Len(s), ~ s[i - 1].leaked
               PROVE  s[i].saved = Expected(s[i - 1])
    BY DEF Nested
  <2>1. i - 1 \in 1..Len(c) /\ s[i - 1] = c[i - 1]
    BY <1>1
  <2>2. CASE i = Len(c) + 1
    BY <1>1, <1>e, <2>1, <2>2 DEF PlacesOf, AtHome
  <2>3. CASE i # Len(c) + 1
    <3>1. i \in 2..Len(c) /\ i \in 1..Len(c)
      BY <1>1, <2>3
    <3> QED BY <1>1, <2>1, <3>1 DEF PlacesOf, Nested
  <2> QED BY <2>2, <2>3
<1>3. AtHome(s, Expected(fr))
  BY <1>1, Pushed DEF AtHome, s
<1>4. Outermost(s)
  <2>1. CASE Len(c) = 0
    BY <1>1, <1>e, <2>1, Pushed DEF Outermost, s
  <2>2. CASE Len(c) # 0
    <3>1. 1 \in 1..Len(c)
      BY <1>1, <2>2
    <3> QED BY <1>1, <1>e, <3>1, <2>2 DEF Outermost, PlacesOf
  <2> QED BY <2>1, <2>2
<1> QED BY <1>2, <1>3, <1>4 DEF PlacesOf, s

LEMMA PopPlaces ==
  ASSUME NEW U, NEW s \in Seq(Frame(U)), s # << >>, NEW here, PlacesOf(s, here)
  PROVE  PlacesOf(SubSeq(s, 1, Len(s) - 1), s[Len(s)].saved)
<1> DEFINE t == SubSeq(s, 1, Len(s) - 1)
<1>0. Len(s) \in Nat /\ Len(s) - 1 \in 0..Len(s)
  OBVIOUS
<1>1. /\ t \in Seq(Frame(U)) /\ Len(t) = Len(s) - 1
      /\ \A i \in 1..(Len(s) - 1) : t[i] = s[i]
  BY <1>0, Cut
<1> HIDE DEF t
<1>e. Len(t) = 0 <=> t = << >>
  BY <1>1
<1>2. Nested(t)
  <2> SUFFICES ASSUME NEW i \in 2..Len(t), ~ t[i - 1].leaked
               PROVE  t[i].saved = Expected(t[i - 1])
    BY DEF Nested
  <2>1. t[i] = s[i] /\ t[i - 1] = s[i - 1] /\ i \in 2..Len(s)
    BY <1>0, <1>1
  <2> QED BY <2>1 DEF PlacesOf, Nested
<1>3. AtHome(t, s[Len(s)].saved)
  <2> SUFFICES ASSUME t # << >>, ~ t[Len(t)].leaked PROVE s[Len(s)].saved = Expected(t[Len(t)])
    BY DEF AtHome
  <2>1. t[Len(t)] = s[Len(s) - 1] /\ Len(s) \in 2..Len(s)
    BY <1>0, <1>1, <1>e
  <2> QED BY <2>1 DEF PlacesOf, Nested
<1>4. Outermost(t)
  BY <1>0, <1>1, <1>e DEF Outermost, PlacesOf
<1> QED BY <1>2, <1>3, <1>4 DEF PlacesOf, t

LEMMA UnwindPlaces ==
  ASSUME NEW U, NEW s \in Seq(Frame(U)), NEW here, NEW there, PlacesOf(s, here),
         NEW k \in 1..Len(s), s[k].guarded,
         NEW t, t = LeftWith(s, k - 1)
  PROVE  t \in Seq(Frame(U)) /\ k - 1 \in 1..Len(s) /\ PlacesOf(t, there)
<1>0. k # 1
  BY DEF PlacesOf, Outermost
<1> PICK j : j = k - 1
  OBVIOUS
<1>1. j \in 1..Len(s) /\ t = LeftWith(s, j) /\ Len(s) \in Nat
  BY <1>0
<1>2. /\ t \in Seq(Frame(U)) /\ Len(t) = j
      /\ \A i \in 1..(j - 1) : t[i] = s[i]
      /\ Leaked(t[j], s[j])
  BY <1>1, CutLeaked
<1>3. \A i \in 1..j : Expected(t[i]) = Expected(s[i]) /\ t[i].saved = s[i].saved
                      /\ (~ t[i].leaked => ~ s[i].leaked) /\ t[i].guarded = s[i].guarded
  <2> SUFFICES ASSUME NEW i \in 1..j
               PROVE  Expected(t[i]) = Expected(s[i]) /\ t[i].saved = s[i].saved
                      /\ (~ t[i].leaked => ~ s[i].leaked) /\ t[i].guarded = s[i].guarded
    OBVIOUS
  <2>1. CASE i = j
    BY <1>2, <2>1 DEF Expected, Leaked
  <2>2. CASE i # j
    <3>1. t[i] = s[i]
      BY <1>1, <1>2, <2>2
    <3> QED BY <3>1
  <2> QED BY <2>1, <2>2
<1>4. Nested(t)
  <2> SUFFICES ASSUME NEW i \in 2..Len(t), ~ t[i - 1].leaked
               PROVE  t[i].saved = Expected(t[i - 1])
    BY DEF Nested
  <2>1. i \in 1..j /\ i - 1 \in 1..j /\ i \in 2..Len(s)
    BY <1>1, <1>2
  <2> QED BY <1>3, <2>1 DEF PlacesOf, Nested
<1>5. AtHome(t, there)
  BY <1>2 DEF AtHome, Leaked
<1>6. Outermost(t)
  <2>1. 1 \in 1..j /\ s # << >>
    BY <1>1
  <2> QED BY <1>3, <2>1 DEF Outermost, PlacesOf
<1> QED BY <1>1, <1>2, <1>4, <1>5, <1>6 DEF PlacesOf

-----------------------------------------------------------------------------
(* The flag of includeexternal                                             *)

CallsBelow(s, i) == \E j \in 1..(i - 1) : s[j].how = "external"

Calling(s) == CallsBelow(s, Len(s) + 1)

\* During such a call the flag is set, and put back is what it was; as long as no
\* error has been caught (exact) it is set only then.
ScopesOf(s, ext, exact) ==
  /\ Calling(s) => ext
  /\ \A i \in 1..Len(s) : CallsBelow(s, i) => s[i].outer
  /\ exact => /\ ext => Calling(s)
              /\ \A i \in 1..Len(s) : s[i].outer => CallsBelow(s, i)

\* Stacks that agree on the calls below i
LEMMA SameBelow ==
  ASSUME NEW s, NEW t, NEW i \in Nat, \A j \in 1..(i - 1) : s[j].how = t[j].how
  PROVE  CallsBelow(s, i) <=> CallsBelow(t, i)
BY DEF CallsBelow

LEMMA AlikeScopes ==
  ASSUME NEW U, NEW s \in Seq(Frame(U)), NEW t \in Seq(Frame(U)), Alike(s, t),
         NEW ext, NEW exact, ScopesOf(t, ext, exact)
  PROVE  ScopesOf(s, ext, exact)
<1>1. Len(s) = Len(t) /\ Len(t) \in Nat /\ \A i \in 1..Len(t) : Same(s[i], t[i])
  BY DEF Alike
<1>2. \A i \in 1..(Len(t) + 1) : CallsBelow(s, i) <=> CallsBelow(t, i)
  <2> SUFFICES ASSUME NEW i \in 1..(Len(t) + 1) PROVE CallsBelow(s, i) <=> CallsBelow(t, i)
    OBVIOUS
  <2>1. i \in Nat /\ \A j \in 1..(i - 1) : s[j].how = t[j].how
    BY <1>1 DEF Same
  <2> QED BY <2>1, SameBelow
<1>3. Calling(s) <=> Calling(t)
  BY <1>1, <1>2 DEF Calling
<1>4. \A i \in 1..Len(t) : s[i].outer = t[i].outer /\ (CallsBelow(s, i) <=> CallsBelow(t, i))
  BY <1>1, <1>2 DEF Same
<1> QED BY <1>1, <1>3, <1>4 DEF ScopesOf

\* An error was caught, or the flag set before the error.
LEMMA Loosened ==
  ASSUME NEW s, NEW ext, NEW exact, ScopesOf(s, ext, exact)
  PROVE  ScopesOf(s, ext, FALSE) /\ ScopesOf(s, TRUE, FALSE)
BY DEF ScopesOf

LEMMA PushScopes ==
  ASSUME NEW U, NEW c \in Seq(Frame(U)), NEW fr \in Frame(U), NEW ext, NEW exact,
         ScopesOf(c, ext, exact), fr.outer = ext
  PROVE  ScopesOf(Append(c, fr), IF fr.how = "external" THEN TRUE ELSE ext, exact)
<1> DEFINE s == Append(c, fr)
<1>1. /\ s \in Seq(Frame(U)) /\ Len(s) = Len(c) + 1 /\ Len(c) \in Nat
      /\ \A i \in 1..Len(c) : s[i] = c[i]
      /\ s[Len(c) + 1] = fr
  BY Pushed
<1> HIDE DEF s
<1>2. \A i \in 1..(Len(c) + 1) : CallsBelow(s, i) <=> CallsBelow(c, i)
  <2> SUFFICES ASSUME NEW i \in 1..(Len(c) + 1) PROVE CallsBelow(s, i) <=> CallsBelow(c, i)
    OBVIOUS
  <2>1. i \in Nat /\ \A j \in 1..(i - 1) : s[j].how = c[j].how
    BY <1>1
  <2> QED BY <2>1, SameBelow
<1>3. Calling(s) <=> (Calling(c) \/ fr.how = "external")
  <2>1. Calling(s) <=> \E j \in 1..(Len(c) + 1) : s[j].how = "external"
    BY <1>1 DEF Calling, CallsBelow
  <2>2. Calling(c) <=> \E j \in 1..Len(c) : c[j].how = "external"
    BY <1>1 DEF Calling, CallsBelow
  <2>3. \A j : j \in 1..(Len(c) + 1) <=> (j \in 1..Len(c) \/ j = Len(c) + 1)
    BY <1>1
  <2> QED BY <1>1, <2>1, <2>2, <2>3
<1>4. \A i \in 1..Len(s) :
        \/ i \in 1..Len(c) /\ s[i].outer = c[i].outer
        \/ i = Len(c) + 1 /\ s[i].outer = ext
  BY <1>1
<1>5. \A i \in 1..Len(s) : CallsBelow(s, i) => s[i].outer
  BY <1>1, <1>2, <1>4 DEF ScopesOf, Calling
<1>6. exact => \A i \in 1..Len(s) : s[i].outer => CallsBelow(s, i)
  BY <1>1, <1>2, <1>4 DEF ScopesOf, Calling
<1>7. ScopesOf(s, IF fr.how = "external" THEN TRUE ELSE ext, exact)
  BY <1>3, <1>5, <1>6 DEF ScopesOf
<1> QED BY <1>7 DEF s

\* Leaving the calls from k + 1 on
LEMMA CutScopes ==
  ASSUME NEW U, NEW s \in Seq(Frame(U)), NEW t \in Seq(Frame(U)), NEW k \in 0..Len(s),
         Len(t) = k, \A i \in 1..k : t[i].how = s[i].how /\ t[i].outer = s[i].outer,
         NEW ext, NEW exact, ScopesOf(s, ext, exact), NEW after,
         CallsBelow(s, k + 1) => after,
         exact => (after => CallsBelow(s, k + 1))
  PROVE  ScopesOf(t, after, exact)
<1>1. k \in Nat /\ Len(s) \in Nat /\ k <= Len(s)
  OBVIOUS
<1>2. \A i \in 1..(k + 1) : CallsBelow(t, i) <=> CallsBelow(s, i)
  <2> SUFFICES ASSUME NEW i \in 1..(k + 1) PROVE CallsBelow(t, i) <=> CallsBelow(s, i)
    OBVIOUS
  <2>1. i \in Nat /\ \A j \in 1..(i - 1) : t[j].how = s[j].how
    BY <1>1
  <2> QED BY <2>1, SameBelow
<1>3. Calling(t) <=> CallsBelow(s, k + 1)
  BY <1>1, <1>2 DEF Calling
<1>4. \A i \in 1..Len(t) : i \in 1..Len(s) /\ t[i].outer = s[i].outer
                           /\ (CallsBelow(t, i) <=> CallsBelow(s, i))
  BY <1>1, <1>2
<1> QED BY <1>3, <1>4 DEF ScopesOf

LEMMA PopScopes ==
  ASSUME NEW U, NEW s \in Seq(Frame(U)), s # << >>, NEW ext, NEW exact, ScopesOf(s, ext, exact)
  PROVE  ScopesOf(SubSeq(s, 1, Len(s) - 1),
                  IF s[Len(s)].how = "external" THEN s[Len(s)].outer ELSE ext, exact)
<1> DEFINE t == SubSeq(s, 1, Len(s) - 1)
           after == IF s[Len(s)].how = "external" THEN s[Len(s)].outer ELSE ext
<1>1. Len(s) \in Nat /\ Len(s) - 1 \in 0..Len(s) /\ Len(s) \in 1..Len(s)
  OBVIOUS
<1>2. /\ t \in Seq(Frame(U)) /\ Len(t) = Len(s) - 1
      /\ \A i \in 1..(Len(s) - 1) : t[i].how = s[i].how /\ t[i].outer = s[i].outer
  BY <1>1, Cut
<1>3. Calling(s) <=> (CallsBelow(s, Len(s)) \/ s[Len(s)].how = "external")
  <2>1. \A j : j \in 1..Len(s) <=> (j \in 1..(Len(s) - 1) \/ j = Len(s))
    BY <1>1
  <2>2. Calling(s) <=> \E j \in 1..Len(s) : s[j].how = "external"
    BY <1>1 DEF Calling, CallsBelow
  <2> QED BY <2>1, <2>2 DEF CallsBelow
<1>4. CallsBelow(s, Len(s)) => after
  BY <1>1, <1>3 DEF ScopesOf
<1>5. exact => (after => CallsBelow(s, Len(s)))
  BY <1>1, <1>3 DEF ScopesOf
<1>6. (Len(s) - 1) + 1 = Len(s)
  BY <1>1
<1> HIDE DEF t, after
<1>7. ScopesOf(t, after, exact)
  BY <1>1, <1>2, <1>4, <1>5, <1>6, CutScopes
<1> QED BY <1>7 DEF t, after

LEMMA UnwindScopes ==
  ASSUME NEW U, NEW s \in Seq(Frame(U)), NEW k \in 1..Len(s), NEW t, t = LeftWith(s, k),
         NEW ext, NEW exact, ScopesOf(s, ext, exact), NEW after,
         after = ext \/ after = TRUE
  PROVE  ScopesOf(t, after, FALSE)
<1>1. /\ t \in Seq(Frame(U)) /\ Len(t) = k
      /\ \A i \in 1..(k - 1) : t[i] = s[i]
      /\ Leaked(t[k], s[k]) /\ Len(s) \in Nat
  BY CutLeaked
<1>2. \A i \in 1..k : t[i].how = s[i].how /\ t[i].outer = s[i].outer
  <2> SUFFICES ASSUME NEW i \in 1..k PROVE t[i].how = s[i].how /\ t[i].outer = s[i].outer
    OBVIOUS
  <2>1. CASE i = k
    BY <1>1, <2>1 DEF Leaked
  <2>2. CASE i # k
    <3>1. i \in 1..(k - 1)
      BY <2>2
    <3> QED BY <1>1, <3>1
  <2> QED BY <2>1, <2>2
<1>3. CallsBelow(s, k + 1) => Calling(s)
  BY <1>1 DEF Calling, CallsBelow
<1>4. CallsBelow(s, k + 1) => after
  BY <1>3 DEF ScopesOf
<1>5. ScopesOf(s, ext, FALSE)
  BY Loosened
<1>6. k \in 0..Len(s)
  OBVIOUS
<1> QED BY <1>1, <1>2, <1>4, <1>5, <1>6, CutScopes

-----------------------------------------------------------------------------
(* The stack in every reachable state                                      *)

Exact == ~ caught /\ phase # "failed"

StackInv == Idle /\ Shape /\ PlacesOf(stack, Here) /\ ScopesOf(stack, external, Exact)

LEMMA Wider ==
  ASSUME NEW U, NEW V, U \subseteq V, NEW s \in Seq(Frame(U))
  PROVE  s \in Seq(Frame(V))
<1>1. Frame(U) \subseteq Frame(V)
  BY DEF Frame
<1> QED BY <1>1

LEMMA StackAdvances ==
  ASSUME StackInv, Advances PROVE StackInv'
<1> PICK U : stack \in Seq(Frame(U))
  BY DEF StackInv, Shape
<1>1. Running /\ stack # << >>
  BY DEF Advances, Running
<1>2. Advanced \in Seq(Frame(U)) /\ Alike(Advanced, stack)
  BY <1>1, AdvancedAlike
<1>3. Here' = Here
  BY DEF Advances, Here, place
<1>4. PlacesOf(stack, Here)'
  <2>1. PlacesOf(Advanced, Here)
    BY <1>2, AlikePlaces DEF StackInv
  <2> QED BY <1>3, <2>1 DEF Advances
<1>5. ScopesOf(stack, external, Exact)'
  <2>1. ScopesOf(Advanced, external, Exact)
    BY <1>2, AlikeScopes DEF StackInv
  <2>2. Exact' \in BOOLEAN /\ Exact \in BOOLEAN
    BY DEF Exact
  <2>3. ScopesOf(Advanced, external, FALSE) /\ ScopesOf(Advanced, TRUE, FALSE)
    BY <2>1, Loosened
  <2>4. \/ external' = external /\ (Exact' => Exact)
        \/ external' = TRUE /\ ~ Exact'
    BY DEF Advances, Exact
  <2>5. ScopesOf(Advanced, external', Exact')
    BY <2>1, <2>2, <2>3, <2>4
  <2> QED BY <2>5 DEF Advances
<1>6. Idle'
  BY <1>1 DEF Advances, Running, StackInv, Idle
<1>7. Shape'
  BY <1>2 DEF Advances, Shape
<1> QED BY <1>4, <1>5, <1>6, <1>7 DEF StackInv

LEMMA StackCalls ==
  ASSUME StackInv, Calls PROVE StackInv'
<1> PICK U : stack \in Seq(Frame(U))
  BY DEF StackInv, Shape
<1> PICK f, how, guard :
      /\ \/ Running /\ phase' = phase /\ Enter(Advanced, f, how, guard)
         \/ /\ stack = << >> /\ phase \in Phases \union {"start"} /\ phase' \in Phases
            /\ ~ guard /\ how = "host" /\ Enter(<< >>, f, how, guard)
      /\ external' = IF how = "external" THEN TRUE ELSE external
      /\ caught' = caught
  BY DEF Calls
<1> DEFINE fr == [file |-> f, pc |-> 1, how |-> how, guarded |-> guard,
                  saved |-> Here, outer |-> external, leaked |-> FALSE]
           V  == U \union {f, how, guard, external, script, dir, cwd}
<1>1. fr \in Frame(V)
  BY DEF Frame, Here
<1>2. PICK c : /\ Enter(c, f, how, guard) /\ c \in Seq(Frame(U))
               /\ PlacesOf(c, Here) /\ ScopesOf(c, external, Exact)
               /\ c = << >> => ~ guard
  <2>1. CASE Running /\ Enter(Advanced, f, how, guard)
    <3>1. Advanced \in Seq(Frame(U)) /\ Alike(Advanced, stack) /\ stack # << >>
      BY <2>1, AdvancedAlike DEF Running
    <3>2. PlacesOf(Advanced, Here) /\ ScopesOf(Advanced, external, Exact)
      BY <3>1, AlikePlaces, AlikeScopes DEF StackInv
    <3>3. Advanced # << >>
      BY <3>1 DEF Alike
    <3> QED BY <2>1, <3>1, <3>2, <3>3
  <2>2. CASE stack = << >> /\ ~ guard /\ Enter(<< >>, f, how, guard)
    BY <2>2 DEF StackInv
  <2> QED BY <2>1, <2>2
<1>3. c \in Seq(Frame(V))
  BY <1>2, Wider
<1>4. stack' = Append(c, fr) /\ Here' = Expected(fr)
  BY <1>2 DEF Enter, Here, Expected
<1>5. fr.saved = Here /\ fr.outer = external /\ fr.how = how /\ fr.guarded = guard
  OBVIOUS
<1>6. Exact' = Exact
  BY DEF Exact, Running, Phases
<1> HIDE DEF fr, V
<1>7. PlacesOf(Append(c, fr), Expected(fr))
  BY <1>1, <1>2, <1>3, <1>5, PushPlaces
<1>8. ScopesOf(Append(c, fr), IF how = "external" THEN TRUE ELSE external, Exact)
  BY <1>1, <1>2, <1>3, <1>5, PushScopes
<1>9. PlacesOf(stack, Here)' /\ ScopesOf(stack, external, Exact)'
  BY <1>4, <1>6, <1>7, <1>8
<1>10. Idle'
  BY DEF Idle, Running, StackInv, Phases
<1>11. Shape'
  BY <1>1, <1>3, <1>4, Pushed DEF Shape
<1> QED BY <1>9, <1>10, <1>11 DEF StackInv

LEMMA StackLeaves ==
  ASSUME StackInv, Leaves PROVE StackInv'
<1> PICK U : stack \in Seq(Frame(U))
  BY DEF StackInv, Shape
<1>1. /\ Running /\ stack # << >> /\ phase' = phase /\ caught' = caught
      /\ stack' = SubSeq(stack, 1, Len(stack) - 1)
      /\ external' = IF stack[Len(stack)].how = "external"
                     THEN stack[Len(stack)].outer ELSE external
      /\ script' = Top.saved.script /\ dir' = Top.saved.dir /\ cwd' = Top.saved.cwd
  BY DEF Leaves, Return, Running, Top, ghosts
<1>2. Here' = stack[Len(stack)].saved
  <2>1. Top \in Frame(U)
    BY <1>1 DEF Top
  <2>2. Top.saved = [script |-> Top.saved.script, dir |-> Top.saved.dir, cwd |-> Top.saved.cwd]
    BY <2>1 DEF Frame
  <2> QED BY <1>1, <2>2 DEF Here, Top
<1>3. PlacesOf(stack, Here)'
  BY <1>1, <1>2, PopPlaces DEF StackInv
<1>4. Exact' = Exact
  BY <1>1 DEF Exact
<1>5. ScopesOf(stack, external, Exact)'
  BY <1>1, <1>4, PopScopes DEF StackInv
<1>6. Len(stack) - 1 \in 0..Len(stack)
  BY <1>1
<1>7. Shape'
  BY <1>1, <1>6, Cut DEF Shape
<1>8. Idle'
  BY <1>1 DEF Idle, Running, StackInv
<1> QED BY <1>3, <1>5, <1>7, <1>8 DEF StackInv

LEMMA StackUnwinds ==
  ASSUME StackInv, Unwinds PROVE StackInv'
<1> PICK U : stack \in Seq(Frame(U))
  BY DEF StackInv, Shape
<1>1. PICK k \in 1..Len(stack) :
        /\ Running /\ phase' = phase /\ stack[k].guarded
        /\ stack' = LeftWith(stack, k - 1)
        /\ UNCHANGED place
        /\ Raised /\ caught'
  BY DEF Unwinds
<1>2. stack' \in Seq(Frame(U)) /\ k - 1 \in 1..Len(stack) /\ PlacesOf(stack', Here')
  BY <1>1, UnwindPlaces DEF StackInv
<1>3. ScopesOf(stack', external', FALSE)
  <2>1. ScopesOf(stack, external, Exact) /\ (external' = external \/ external' = TRUE)
    BY <1>1 DEF StackInv, Raised
  <2>2. k - 1 \in 1..Len(stack) /\ stack' = LeftWith(stack, k - 1)
    BY <1>1, <1>2
  <2> PICK j : j = k - 1
    OBVIOUS
  <2>3. j \in 1..Len(stack) /\ stack' = LeftWith(stack, j)
    BY <2>2
  <2> QED BY <2>1, <2>3, UnwindScopes
<1>4. Exact' = FALSE
  BY <1>1 DEF Exact
<1>5. Idle'
  BY <1>1 DEF Idle, Running, StackInv
<1> QED BY <1>2, <1>3, <1>4, <1>5 DEF StackInv, Shape

LEMMA EmptyStack ==
  ASSUME NEW here, NEW ext PROVE PlacesOf(<< >>, here) /\ ScopesOf(<< >>, ext, FALSE)
BY DEF PlacesOf, Nested, AtHome, Outermost, ScopesOf, Calling, CallsBelow

\* Every step of the program keeps the stack in order.
LEMMA StackStep ==
  ASSUME StackInv, [Next]_vars PROVE StackInv'
<1>1. Moves
  BY NextMoves DEF StackInv
<1>2. CASE Stays
  <2>1. Here' = Here
    BY <1>2 DEF Stays, Here, place
  <2>2. stack' = stack /\ external' = external
    BY <1>2 DEF Stays
  <2>3. Exact' => Exact
    BY <1>2 DEF Stays, Exact
  <2>4. ScopesOf(stack, external, Exact')
    <3>1. Exact \in BOOLEAN /\ Exact' \in BOOLEAN
      BY DEF Exact
    <3> QED BY <2>3, <3>1, Loosened DEF StackInv
  <2>5. Idle'
    BY <1>2 DEF Stays, Idle, StackInv
  <2> QED BY <2>1, <2>2, <2>4, <2>5 DEF StackInv, Shape
<1>3. CASE Stops
  <2>1. stack' = << >> /\ phase' = "failed"
    BY <1>3 DEF Stops
  <2>2. Exact' = FALSE
    BY <2>1 DEF Exact
  <2>3. PlacesOf(stack, Here)' /\ ScopesOf(stack, external, Exact)'
    BY <2>1, <2>2, EmptyStack
  <2>4. Shape'
    <3>1. << >> \in Seq(Frame({}))
      OBVIOUS
    <3> QED BY <2>1, <3>1 DEF Shape
  <2> QED BY <2>1, <2>3, <2>4 DEF StackInv, Idle
<1> QED BY <1>1, <1>2, <1>3, StackAdvances, StackCalls, StackLeaves, StackUnwinds DEF Moves

LEMMA StackInit == ASSUME Init PROVE StackInv
<1>1. stack = << >> /\ phase = "start" /\ external = FALSE
  BY DEF Init
<1>2. Shape
  <2>1. << >> \in Seq(Frame({}))
    OBVIOUS
  <2> QED BY <1>1, <2>1 DEF Shape
<1>3. PlacesOf(stack, Here)
  BY <1>1, EmptyStack
<1>4. ScopesOf(stack, external, Exact)
  BY <1>1 DEF ScopesOf, Calling, CallsBelow
<1> QED BY <1>1, <1>2, <1>3, <1>4 DEF StackInv, Idle

-----------------------------------------------------------------------------
(* Containers and counts                                                   *)

\* What a container remembers of its creation
Entry(r) ==
  /\ r = [external |-> r.external, basedir |-> r.basedir, by |-> r.by,
          leaked |-> r.leaked, created |-> r.created, inside |-> r.inside]
  /\ ~ r.leaked /\ ~ Embedded(r.by) => r.basedir = Normal(DirOf(r.by))
  /\ r.created => r.external

Marked(r, exact) == r.external /\ exact => r.inside

ContainerInv ==
  \A c \in DOMAIN containers : Entry(containers[c]) /\ Marked(containers[c], ~ caught)

OnceInv ==
  (\A f \in included : Normal(f) = f) =>
    ran = [g \in Files |-> IF g \in included THEN 1 ELSE 0]

\* A container is named while its script runs, in its place.
LEMMA NamedInv ==
  ASSUME StackInv, ContainerInv, Running, NEW c, containers' = Named(c),
         caught' = caught
  PROVE  ContainerInv'
<1> PICK U : stack \in Seq(Frame(U))
  BY DEF StackInv, Shape
<1>1. Len(stack) \in Nat /\ stack # << >> /\ phase # "failed"
  BY DEF Running, Phases
<1>2. Inside <=> Calling(stack)
  BY <1>1 DEF Inside, Calling, CallsBelow
<1>3. (Inside => external) /\ (~ caught /\ external => Inside)
  BY <1>1, <1>2 DEF StackInv, ScopesOf, Exact
<1>4. ~ Top.leaked /\ ~ Embedded(Top.file) => cwd = Normal(DirOf(Top.file))
  <2>1. ~ Top.leaked => Here = Expected(Top)
    BY <1>1 DEF StackInv, PlacesOf, AtHome, Top
  <2>2. ~ Embedded(Top.file) => Expected(Top).cwd = Normal(DirOf(Top.file))
    BY DEF Expected
  <2>3. Here.cwd = cwd
    BY DEF Here
  <2> QED BY <2>1, <2>2, <2>3
<1> DEFINE new == [external |-> external, basedir |-> cwd, by |-> Top.file,
                   leaked |-> Top.leaked, created |-> Inside, inside |-> Inside]
<1>5. Entry(new) /\ Marked(new, ~ caught)
  BY <1>3, <1>4 DEF Entry, Marked
<1>6. ASSUME NEW r, Entry(r), Marked(r, ~ caught),
             NEW q, q = [r EXCEPT !.external = @ \/ external, !.inside = @ \/ Inside]
      PROVE  Entry(q) /\ Marked(q, ~ caught)
  <2>1. q = [external |-> r.external \/ external, basedir |-> r.basedir, by |-> r.by,
             leaked |-> r.leaked, created |-> r.created, inside |-> r.inside \/ Inside]
    BY <1>6 DEF Entry
  <2>2. /\ q.external <=> (r.external \/ external)
        /\ q.inside <=> (r.inside \/ Inside)
        /\ q.basedir = r.basedir /\ q.by = r.by /\ q.leaked = r.leaked
        /\ q.created = r.created
        /\ q = [external |-> q.external, basedir |-> q.basedir, by |-> q.by,
                leaked |-> q.leaked, created |-> q.created, inside |-> q.inside]
    BY <2>1
  <2> QED BY <1>3, <1>6, <2>2 DEF Entry, Marked
<1>7. ASSUME NEW k \in DOMAIN containers'
      PROVE  Entry(containers'[k]) /\ Marked(containers'[k], ~ caught)
  <2>1. k \in DOMAIN containers \union {c}
    BY <1>7 DEF Named
  <2>2. CASE k # c
    <3>1. k \in DOMAIN containers /\ containers'[k] = containers[k]
      BY <2>1, <2>2 DEF Named
    <3> QED BY <3>1 DEF ContainerInv
  <2>3. CASE k = c /\ c \in DOMAIN containers
    <3>1. containers'[k] = [containers[c] EXCEPT !.external = @ \/ external,
                                                 !.inside = @ \/ Inside]
      BY <2>1, <2>3 DEF Named
    <3> QED BY <1>6, <2>3, <3>1 DEF ContainerInv
  <2>4. CASE k = c /\ c \notin DOMAIN containers
    <3>1. containers'[k] = new
      BY <2>1, <2>4 DEF Named
    <3> QED BY <1>5, <3>1
  <2> QED BY <2>2, <2>3, <2>4
<1> QED BY <1>7 DEF ContainerInv

LEMMA CaughtStays == ASSUME StackInv, [Next]_vars PROVE caught => caught'
<1>1. Moves
  BY NextMoves DEF StackInv
<1> QED BY <1>1 DEF Moves, Stays, Advances, Calls, Leaves, Return, Unwinds, Stops, ghosts

LEMMA ContainerStep == ASSUME StackInv, ContainerInv, [Next]_vars PROVE ContainerInv'
<1>1. ASSUME containers' = containers PROVE ContainerInv'
  <2>1. caught => caught'
    BY CaughtStays
  <2> QED BY <1>1, <2>1 DEF ContainerInv, Marked
<1>2. CASE Workspace
  <2>1. Running /\ containers' = Named(Statement.arg) /\ caught' = caught
    BY <1>2 DEF Workspace, IsAt, ghosts
  <2> QED BY <2>1, NamedInv
<1>3. CASE Project
  <2>1. Running /\ containers' = Named(Statement.arg) /\ caught' = caught
    BY <1>3 DEF Project, IsAt, ghosts
  <2> QED BY <2>1, NamedInv
<1>4. CASE Group
  <2>1. Running /\ containers' = Named(scope.current) /\ caught' = caught
    BY <1>4 DEF Group, IsAt, ghosts
  <2> QED BY <2>1, NamedInv
<1>5. CASE UNCHANGED vars
  BY <1>1, <1>5 DEF vars, api
<1>6. CASE RunCore \/ RunUserScript \/ Finish \/ IncludeNew \/ IncludeAgain \/ IncludeMissing
  BY <1>1, <1>6 DEF RunCore, RunUserScript, Finish, IncludeNew, IncludeAgain, IncludeMissing,
                    NotFound, api
<1>9. CASE \/ PrepareEnvironment \/ PreloadModule \/ PreloadAgain \/ RequireModule
           \/ RunSystemScript
  BY <1>1, <1>9 DEF PrepareEnvironment, PreloadModule, PreloadAgain, RequireModule,
                    RunSystemScript, api
<1>7. CASE IncludeExternal \/ IncludeExternalMissing \/ DoFile \/ DoFileMissing
  BY <1>1, <1>7 DEF IncludeExternal, IncludeExternalMissing, DoFile, DoFileMissing, NotFound, api
<1>8. CASE OutOfScope \/ RaiseError \/ Return
  BY <1>1, <1>8 DEF OutOfScope, RaiseError, Return, api
<1> QED BY <1>2, <1>3, <1>4, <1>5, <1>6, <1>7, <1>8, <1>9 DEF Next

\* include records the scripts it runs, whoever calls it.
LEMMA OnceRecorded ==
  ASSUME OnceInv, program' = program, NEW f, f \notin included,
         included' = included \union {f}, ran' = [ran EXCEPT ![Normal(f)] = @ + 1]
  PROVE  OnceInv'
<1>1. SUFFICES ASSUME \A g \in included' : Normal(g) = g
               PROVE  ran' = [g \in Files' |-> IF g \in included' THEN 1 ELSE 0]
  BY DEF OnceInv
<1>2. ran = [g \in Files |-> IF g \in included THEN 1 ELSE 0] /\ Normal(f) = f
  BY <1>1 DEF OnceInv
<1>3. Files' = Files
  BY DEF Files
<1> HIDE DEF Files
<1>4. ran' = [g \in Files |-> IF g \in included' THEN 1 ELSE 0]
  BY <1>1, <1>2
<1> QED BY <1>3, <1>4

LEMMA OnceStep == ASSUME OnceInv, [Next]_vars PROVE OnceInv'
<1>1. ASSUME UNCHANGED <<program, included, ran>> PROVE OnceInv'
  BY <1>1 DEF OnceInv, Files
<1>2. CASE IncludeNew
  <2>1. PICK f : /\ f \notin included /\ included' = included \union {f}
                 /\ ran' = [ran EXCEPT ![Normal(f)] = @ + 1] /\ program' = program
    BY <1>2 DEF IncludeNew, given
  <2> QED BY <2>1, OnceRecorded
<1>3. CASE UNCHANGED vars
  BY <1>1, <1>3 DEF vars, ghosts, given
<1>4. CASE RunCore \/ RunUserScript \/ Finish \/ IncludeAgain \/ IncludeMissing
  BY <1>1, <1>4 DEF RunCore, RunUserScript, Finish, IncludeAgain, IncludeMissing, NotFound,
                    ghosts, given
<1>5. CASE IncludeExternal \/ IncludeExternalMissing \/ DoFile \/ DoFileMissing
  BY <1>1, <1>5 DEF IncludeExternal, IncludeExternalMissing, DoFile, DoFileMissing, NotFound,
                    given
<1>6. CASE Workspace \/ Project \/ Group \/ OutOfScope \/ RaiseError \/ Return
  BY <1>1, <1>6 DEF Workspace, Project, Group, OutOfScope, RaiseError, Return, ghosts, given
<1>7. CASE PreloadModule
  <2>1. PICK f : /\ f \notin included \/ ~ Loads(f)
                 /\ included' = IF Loads(f) THEN included \union {f} ELSE included
                 /\ ran' = IF Loads(f) THEN [ran EXCEPT ![Normal(f)] = @ + 1] ELSE ran
                 /\ program' = program
    BY <1>7 DEF PreloadModule
  <2>2. CASE Loads(f)
    <3>1. /\ f \notin included /\ included' = included \union {f}
          /\ ran' = [ran EXCEPT ![Normal(f)] = @ + 1]
      BY <2>1, <2>2
    <3> QED BY <2>1, <3>1, OnceRecorded
  <2>3. CASE ~ Loads(f)
    BY <1>1, <2>1, <2>3
  <2> QED BY <2>2, <2>3
<1>8. CASE PrepareEnvironment \/ PreloadAgain \/ RequireModule \/ RunSystemScript
  BY <1>1, <1>8 DEF PrepareEnvironment, PreloadAgain, RequireModule, RunSystemScript, ghosts,
                    given
<1> QED BY <1>2, <1>3, <1>4, <1>5, <1>6, <1>7, <1>8 DEF Next

-----------------------------------------------------------------------------
(* The scripts of the executable                                           *)

CoreOf == CHOOSE C \in SUBSET DOMAIN program.builtin : Boot \in C /\ Complete(C, {"dofile"})

\* The scripts that may run in this phase ...
Allowed == IF phase = "core" THEN CoreOf ELSE DOMAIN program.builtin

\* ... when the property says something of it
Claimed ==
  /\ program.release /\ program.scripts = None /\ OwnCore
  /\ phase = "core" \/ (phase = "preload" /\ OwnModules)

\* Calls of scripts of C, none through pcall, from the user's directory
AllOf(C, s) ==
  \A i \in 1..Len(s) :
    s[i].file \in C /\ ~ s[i].guarded /\ ~ s[i].leaked /\ s[i].saved.cwd = program.start

\* The host is where it was started and in no script's directory.
HostPlace ==
  cwd = program.start /\ IF stack = << >> THEN dir = None ELSE stack[1].saved.dir = None

CoreInv ==
  /\ program \in Program
  /\ pending \in Seq(STRING) /\ \A i \in 1..Len(pending) : pending[i] \in Modules
  /\ phase = "start" => HostPlace
  /\ Claimed => HostPlace /\ AllOf(Allowed, stack)

LEMMA DirOfFile ==
  ASSUME NEW S, NEW f \in Seq(S), Len(f) > 1
  PROVE  DirOf(f) \in Seq(S) /\ DirOf(f) # << >> /\ DirOf(f)[1] = f[1]
<1>1. Len(f) \in Nat
  OBVIOUS
<1> PICK n : n = Len(f) - 1
  OBVIOUS
<1>2. n \in 1..Len(f) /\ DirOf(f) = SubSeq(f, 1, n)
  BY <1>1 DEF DirOf
<1> PICK g : g = SubSeq(f, 1, n)
  OBVIOUS
<1>3. g \in Seq(S) /\ Len(g) = n /\ g[1] = f[1]
  BY <1>2
<1>4. g # << >>
  <2>1. Len(g) \in Nat /\ Len(g) # 0
    BY <1>1, <1>2, <1>3
  <2>2. Len(<< >>) = 0
    OBVIOUS
  <2> QED BY <2>1, <2>2, Zenon
<1> QED BY <1>2, <1>3, <1>4

LEMMA SameProgram ==
  ASSUME program' = program
  PROVE  (OwnCore' <=> OwnCore) /\ (OwnModules' <=> OwnModules) /\ CoreOf' = CoreOf
<1>1. OwnCore' <=> OwnCore
  BY DEF OwnCore, Complete, Statements
<1>2. LookedFor' = LookedFor
  BY DEF LookedFor, Modules, Included, Statements
<1>3. \A p : InTheWay(p)' <=> InTheWay(p)
  BY DEF InTheWay, HostPath, FirstPath
<1>4. OwnModules' <=> OwnModules
  BY <1>2, <1>3 DEF OwnModules, Complete, Statements
<1>5. CoreOf' = CoreOf
  BY DEF CoreOf, Complete, Statements
<1> QED BY <1>1, <1>4, <1>5

\* Embedded scripts, and what is said of them
Builtins == DOMAIN program.builtin

LEMMA BuiltinIs ==
  ASSUME program \in Program, NEW f \in Builtins
  PROVE  /\ f \in Seq(STRING) /\ Len(f) > 1 /\ f[1] = "$" /\ f # None
         /\ Embedded(f) /\ Absolute(f) /\ Builtin(f) /\ ~ OnDisk(f)
<1>1. f \in Seq(STRING) /\ Len(f) > 1 /\ f[1] = "$"
  BY ProgramAssumption DEF Builtins
<1>2. Embedded(f) /\ Absolute(f)
  BY <1>1 DEF Embedded, Absolute
<1> QED BY <1>1, <1>2, NoneAssumption DEF Builtin, Builtins, OnDisk

LEMMA Joined ==
  ASSUME NEW S, NEW e \in S, NEW a \in Seq(S), NEW b \in Seq(S), NEW c \in Seq(S),
         NEW l, l = ((<<e>> \o a) \o b) \o c
  PROVE  1 \in 1..Len(l) /\ l[1] = e /\ Len(l) \in Nat
OBVIOUS

\* The working directory comes first.
LEMMA HostPathStarts ==
  ASSUME program \in Program, program.scripts = None
  PROVE  1 \in 1..Len(HostPath) /\ HostPath[1] = << >> /\ Len(HostPath) \in Nat
<1> DEFINE S == Seq(STRING) \union {program.home, DirOf(program.main)}
<1>1. program.env \in Seq(Seq(STRING)) /\ program.share \in Seq(Seq(STRING))
  BY ProgramAssumption
<1>2. /\ program.env \in Seq(S) /\ program.share \in Seq(S)
      /\ <<program.home, DirOf(program.main)>> \in Seq(S) /\ << >> \in S
  BY <1>1
<1>3. HostPath = ((<< << >> >> \o program.env) \o program.share)
                   \o <<program.home, DirOf(program.main)>>
  <2>1. << << >> >> \o << >> = << << >> >>
    OBVIOUS
  <2> QED BY <2>1 DEF HostPath, FirstPath
<1>4. PICK a, b, c :
        a = program.env /\ b = program.share /\ c = <<program.home, DirOf(program.main)>>
  OBVIOUS
<1>5. PICK e, l : e = << >> /\ l = HostPath
  OBVIOUS
<1>6. e \in S /\ a \in Seq(S) /\ b \in Seq(S) /\ c \in Seq(S)
  BY <1>2, <1>4, <1>5
<1>7. l = ((<<e>> \o a) \o b) \o c
  BY <1>3, <1>4, <1>5
<1> HIDE DEF S
<1>8. 1 \in 1..Len(l) /\ l[1] = e /\ Len(l) \in Nat
  BY <1>6, <1>7, Joined
<1> QED BY <1>5, <1>8

\* The first result there is
LEMMA FirstOfIn ==
  ASSUME NEW B, NEW list, Len(list) \in Nat,
         \A i \in 1..Len(list) : list[i] \in B \union {None}
  PROVE  /\ FirstOf(list) \in B \union {None}
         /\ (\E i \in 1..Len(list) : list[i] # None) => FirstOf(list) # None
<1> DEFINE found == {i \in 1..Len(list) : list[i] # None}
<1>1. CASE found = {}
  BY <1>1 DEF FirstOf
<1>2. CASE found # {}
  <2>1. found \in SUBSET Nat
    OBVIOUS
  <2>2. \E i \in found : \A j \in found : i <= j
    <3> HIDE DEF found
    <3> QED BY <1>2, <2>1, LeastNat
  <2>3. First(found) \in found
    BY <2>2 DEF First
  <2>4. FirstOf(list) = list[First(found)]
    BY <1>2 DEF FirstOf
  <2>5. First(found) \in 1..Len(list) /\ list[First(found)] # None
    BY <2>3
  <2> HIDE DEF found
  <2> QED BY <2>4, <2>5
<1> QED BY <1>1, <1>2

\* What is asked for by a name that no file has is embedded, or not found.
LEMMA LocatesOwn ==
  ASSUME program \in Program, program.scripts = None, cwd = program.start, phase = "preload",
         NEW S, NEW p \in Seq(S), ~ InTheWay(p)
  PROVE  ~ OnDisk(p) /\ Locate(p) \in Builtins \union {None}
<1>1. 1 \in 1..Len(HostPath) /\ HostPath[1] = << >> /\ Len(HostPath) \in Nat
  BY HostPathStarts
<1>2. \A i \in 1..Len(HostPath) :
        Normal(Under(cwd, HostPath[i] \o p)) \notin DOMAIN program.disk
  BY DEF InTheWay
<1>3. << >> \o p = p
  OBVIOUS
<1>4. ~ OnDisk(p)
  BY <1>1, <1>2, <1>3 DEF OnDisk
<1>5. {i \in 1..Len(HostPath) : OnDisk(HostPath[i] \o p)} = {}
  BY <1>2 DEF OnDisk
<1>6. SearchPath = HostPath
  BY DEF SearchPath
<1>7. OnPath(p, SearchPath) = None
  BY <1>5, <1>6 DEF OnPath
<1>8. CASE Builtin(p)
  BY <1>4, <1>8 DEF Locate, Builtin, Builtins
<1>9. CASE ~ Builtin(p)
  BY <1>4, <1>7, <1>9 DEF Locate, Builtin, Builtins
<1> QED BY <1>4, <1>8, <1>9

LEMMA LocatesItself ==
  ASSUME program \in Program, NEW f \in Builtins
  PROVE  Locate(f) = f /\ LoadFile(f) = f
<1>1. Embedded(f) /\ Builtin(f)
  BY BuiltinIs
<1> QED BY <1>1 DEF Locate, LoadFile

\* The host asks for an embedded script by its full name.
LEMMA FindsItself ==
  ASSUME program \in Program, NEW f \in Builtins, dir = None
  PROVE  FindProjectScript(f) = f
<1> DEFINE g == Append(f, "premake5")
           l == [i \in 1..2 |-> Locate(<<f, g>>[i])]
<1>1. f \in Seq(STRING) /\ Len(f) > 1 /\ f[1] = "$" /\ ~ OnDisk(f) /\ f # None
  BY BuiltinIs
<1>2. ~ OnDisk(g)
  <2>1. g # << >> /\ g[1] = "$"
    BY <1>1
  <2> QED BY <2>1 DEF OnDisk, Embedded
<1>3. Candidates(f) = <<f, g>>
  <2>1. <<f, g>> \o << >> = <<f, g>>
    OBVIOUS
  <2> QED BY <2>1 DEF Candidates
<1>4. FindProjectScript(f) = FirstOf(l)
  <2>1. Len(<<f, g>>) = 2 /\ \A i \in 1..2 : ~ OnDisk(<<f, g>>[i])
    BY <1>1, <1>2
  <2> HIDE DEF g
  <2>2. {i \in 1..Len(Candidates(f)) : OnDisk(Candidates(f)[i])} = {}
    BY <1>3, <2>1
  <2>3. FindProjectScript(f)
          = FirstOf([i \in 1..Len(Candidates(f)) |-> Locate(Candidates(f)[i])])
    BY <2>2 DEF FindProjectScript
  <2> QED BY <1>3, <2>1, <2>3
<1>5. l[1] = f /\ Len(l) = 2
  BY LocatesItself
<1> HIDE DEF l
<1>6. 1 \in {i \in 1..Len(l) : l[i] # None} /\ \A j \in {i \in 1..Len(l) : l[i] # None} : 1 <= j
  BY <1>1, <1>5
<1>7. First({i \in 1..Len(l) : l[i] # None}) = 1
  <2>1. \A k \in {i \in 1..Len(l) : l[i] # None} :
          (\A j \in {i \in 1..Len(l) : l[i] # None} : k <= j) => k = 1
    BY <1>5, <1>6
  <2> QED BY <1>6, <2>1 DEF First
<1> QED BY <1>4, <1>5, <1>6, <1>7 DEF FirstOf

LEMMA Three ==
  ASSUME NEW S, NEW a \in S, NEW b \in S, NEW c \in S, NEW d, d = <<a, b>> \o <<c>>
  PROVE  Len(d) = 3 /\ d[1] = a /\ d[2] = b /\ d[3] = c
OBVIOUS

LEMMA Longer ==
  ASSUME NEW S, NEW p \in Seq(S), NEW x, NEW q, q = Append(p, x)
  PROVE  q \in Seq(S \union {x})
OBVIOUS

\* What an embedded script includes is found among the embedded ones, its neighbour at last.
LEMMA IncludesOwn ==
  ASSUME program \in Program, program.scripts = None, cwd = program.start, phase = "preload",
         OwnModules, NEW f \in Builtins, NEW p \in Seq(STRING), p \in Included(f),
         dir # None, Embedded(dir), Normal(Under(dir, p)) \in Builtins
  PROVE  FindProjectScript(p) \in Builtins
<1>1. PICK q, b : q = Append(p, "premake5") /\ b = Normal(Under(dir, p))
  OBVIOUS
<1>2. PICK S : q \in Seq(S)
  BY <1>1, Longer
<1>3. p \in LookedFor /\ q \in LookedFor
  <2>1. p \in UNION {Included(g) : g \in DOMAIN program.builtin}
    BY DEF Builtins
  <2>2. IncludeAsks(p) \subseteq
          UNION {IncludeAsks(r) : r \in UNION {Included(g) : g \in DOMAIN program.builtin}}
    BY <2>1
  <2>3. IncludeAsks(p) \subseteq LookedFor
    BY <2>2 DEF LookedFor
  <2> QED BY <1>1, <2>3 DEF IncludeAsks
<1>4. ~ InTheWay(p) /\ ~ InTheWay(q)
  BY <1>3 DEF OwnModules
<1>5. ~ OnDisk(p) /\ Locate(p) \in Builtins \union {None}
  BY <1>4, LocatesOwn
<1>6. ~ OnDisk(q) /\ Locate(q) \in Builtins \union {None}
  BY <1>2, <1>4, LocatesOwn
<1>7. ~ OnDisk(b) /\ Locate(b) = b /\ b # None /\ b \in Builtins
  BY <1>1, BuiltinIs, LocatesItself
<1>8. PICK c : c = Candidates(p)
  OBVIOUS
<1>9. Len(c) = 3 /\ c[1] = p /\ c[2] = q /\ c[3] = b
  <2>1. c = <<p, q>> \o <<b>>
    BY <1>1, <1>8 DEF Candidates
  <2>2. PICK T : T = {p, q, b}
    OBVIOUS
  <2>3. p \in T /\ q \in T /\ b \in T
    BY <2>2
  <2> QED BY <2>1, <2>3, Three
<1>10. \A i \in 1..3 : ~ OnDisk(c[i]) /\ Locate(c[i]) \in Builtins \union {None}
  <2>1. \A i \in 1..3 : i = 1 \/ i = 2 \/ i = 3
    OBVIOUS
  <2> QED BY <1>5, <1>6, <1>7, <1>9, <2>1
<1>11. PICK l : l = [i \in 1..Len(c) |-> Locate(c[i])]
  OBVIOUS
<1>12. FindProjectScript(p) = FirstOf(l)
  <2>1. {i \in 1..Len(c) : OnDisk(c[i])} = {}
    BY <1>9, <1>10
  <2> QED BY <1>8, <1>11, <2>1 DEF FindProjectScript
<1>13. /\ Len(l) = 3 /\ \A i \in 1..Len(l) : l[i] \in Builtins \union {None}
       /\ l[3] # None
  <2>1. l = [i \in 1..3 |-> Locate(c[i])]
    BY <1>9, <1>11
  <2>2. Len(l) = 3 /\ \A i \in 1..3 : l[i] = Locate(c[i])
    BY <2>1
  <2> QED BY <1>7, <1>9, <1>10, <2>2
<1>14. FirstOf(l) \in Builtins \union {None} /\ FirstOf(l) # None
  <2>1. Len(l) \in Nat /\ \E i \in 1..Len(l) : l[i] # None
    BY <1>13
  <2> QED BY <1>13, <2>1, FirstOfIn
<1> QED BY <1>12, <1>14

\* The modules' own scripts are found as well, or none is.
LEMMA ModulesOwn ==
  ASSUME program \in Program, program.scripts = None, cwd = program.start, phase = "preload",
         OwnModules, NEW m \in Modules
  PROVE  Preloader(m) \in Builtins \union {None} /\ ModuleScript(m) \in Builtins \union {None}
<1>1. PICK S : S = {m, "modules", ".modules", "_preload"}
  OBVIOUS
<1>2. PICK a, b : a = PreloadNames(m) /\ b = ModuleNames(m)
  OBVIOUS
<1>3. /\ Len(a) = 2 /\ \A i \in 1..2 : a[i] \in Seq(S)
      /\ Len(b) = 4 /\ \A i \in 1..4 : b[i] \in Seq(S)
  <2>1. /\ <<"modules", m, "_preload">> \in Seq(S) /\ <<m, "_preload">> \in Seq(S)
        /\ <<".modules", m, m>> \in Seq(S) /\ <<"modules", m, m>> \in Seq(S)
        /\ <<m, m>> \in Seq(S) /\ <<m>> \in Seq(S)
    BY <1>1
  <2>2. Len(a) = 2 /\ a[1] \in Seq(S) /\ a[2] \in Seq(S)
    BY <1>2, <2>1 DEF PreloadNames
  <2>3. /\ Len(b) = 4 /\ b[1] \in Seq(S) /\ b[2] \in Seq(S)
        /\ b[3] \in Seq(S) /\ b[4] \in Seq(S)
    BY <1>2, <2>1 DEF ModuleNames
  <2>4. (\A i \in 1..2 : i = 1 \/ i = 2) /\ \A i \in 1..4 : i = 1 \/ i = 2 \/ i = 3 \/ i = 4
    OBVIOUS
  <2> QED BY <2>2, <2>3, <2>4
<1>4. (\A i \in 1..2 : a[i] \in LookedFor) /\ (\A i \in 1..4 : b[i] \in LookedFor)
  <2>1. (\A i \in 1..2 : a[i] \in PreloadAsks(m)) /\ (\A i \in 1..4 : b[i] \in PreloadAsks(m))
    BY <1>2 DEF PreloadAsks
  <2>2. PreloadAsks(m) \subseteq LookedFor
    BY DEF LookedFor
  <2> QED BY <2>1, <2>2
<1>5. /\ \A i \in 1..2 : Locate(a[i]) \in Builtins \union {None}
      /\ \A i \in 1..4 : Locate(b[i]) \in Builtins \union {None}
  <2>1. \A p \in LookedFor : p \in Seq(S) => Locate(p) \in Builtins \union {None}
    BY LocatesOwn DEF OwnModules
  <2> QED BY <1>3, <1>4, <2>1
<1>6. PICK k, l : k = [i \in 1..2 |-> Locate(a[i])] /\ l = [i \in 1..4 |-> Locate(b[i])]
  OBVIOUS
<1>7. Preloader(m) = FirstOf(k) /\ ModuleScript(m) = FirstOf(l)
  BY <1>2, <1>6 DEF Preloader, ModuleScript
<1>8. /\ Len(k) = 2 /\ \A i \in 1..Len(k) : k[i] \in Builtins \union {None}
      /\ Len(l) = 4 /\ \A i \in 1..Len(l) : l[i] \in Builtins \union {None}
  <2>1. Len(k) = 2 /\ \A i \in 1..2 : k[i] = Locate(a[i])
    BY <1>6
  <2>2. Len(l) = 4 /\ \A i \in 1..4 : l[i] = Locate(b[i])
    BY <1>6
  <2> QED BY <1>5, <2>1, <2>2
<1>9. Len(k) \in Nat /\ Len(l) \in Nat
  BY <1>8
<1>10. FirstOf(k) \in Builtins \union {None}
  BY <1>8, <1>9, FirstOfIn
<1>11. FirstOf(l) \in Builtins \union {None}
  BY <1>8, <1>9, FirstOfIn
<1> QED BY <1>7, <1>10, <1>11

LEMMA AllowedIs ==
  ASSUME Claimed
  PROVE  /\ Allowed \subseteq Builtins
         /\ Complete(Allowed, IF phase = "core" THEN {"dofile"} ELSE {"dofile", "include"})
         /\ phase = "core" => Boot \in Allowed
         /\ phase = "preload" => Allowed = Builtins /\ OwnModules
<1>1. CASE phase = "core"
  <2>1. /\ CoreOf \in SUBSET DOMAIN program.builtin
        /\ Boot \in CoreOf /\ Complete(CoreOf, {"dofile"})
    BY DEF Claimed, OwnCore, CoreOf
  <2> QED BY <1>1, <2>1 DEF Allowed, Builtins
<1>2. CASE phase # "core"
  <2>1. phase = "preload" /\ OwnModules
    BY <1>2 DEF Claimed
  <2> QED BY <1>2, <2>1 DEF Allowed, Builtins, OwnModules
<1> QED BY <1>1, <1>2

\* The script that runs calls scripts of the executable only, and catches nothing.
LEMMA OwnStatement ==
  ASSUME StackInv, CoreInv, Claimed, Running, Top.pc <= Len(Body(Top.file))
  PROVE  /\ ~ Statement.guard /\ Statement.op # "includeexternal"
         /\ Statement.op = "dofile" => LoadFile(Statement.arg) \in Allowed
         /\ Statement.op = "include" =>
              LoadFile(FindProjectScript(Statement.arg)) \in Allowed
<1> PICK U : stack \in Seq(Frame(U))
  BY DEF StackInv, Shape
<1>1. PICK W : W = IF phase = "core" THEN {"dofile"} ELSE {"dofile", "include"}
  OBVIOUS
<1>2. /\ program \in Program /\ program.scripts = None /\ HostPlace
      /\ AllOf(Allowed, stack) /\ Allowed \subseteq Builtins /\ Complete(Allowed, W)
  BY <1>1, AllowedIs DEF CoreInv, Claimed
<1>3. stack # << >> /\ Len(stack) \in 1..Len(stack) /\ Top \in Frame(U)
  BY DEF Running, Top
<1>4. PICK f : f = Top.file
  OBVIOUS
<1>5. f \in Allowed /\ f \in Builtins /\ ~ Top.leaked /\ Top.pc \in Nat \ {0}
  BY <1>2, <1>3, <1>4 DEF AllOf, Top, Frame
<1>6. f \in Seq(STRING) /\ Len(f) > 1 /\ f[1] = "$" /\ Embedded(f)
  BY <1>2, <1>5, BuiltinIs
<1>7. Body(f) = program.builtin[f] /\ Len(program.builtin[f]) \in Nat
  BY <1>2, <1>5, <1>6, ProgramAssumption DEF Body, Builtins
<1>8. PICK n : n = Top.pc
  OBVIOUS
<1>9. n \in 1..Len(program.builtin[f]) /\ Statement = program.builtin[f][n]
  BY <1>4, <1>5, <1>7, <1>8 DEF Statement
<1>10. Statement \in Statements(f) /\ Statement.arg \in Seq(STRING)
  <2>1. program.builtin[f][n].arg \in Seq(STRING)
    BY <1>2, <1>5, <1>9, ProgramAssumption DEF Builtins
  <2> QED BY <1>9, <2>1 DEF Statements
<1> PICK s : s = Statement
  OBVIOUS
<1> HIDE DEF Statement
<1>11. /\ ~ s.guard
       /\ s.op \in Loading =>
            s.op \in W /\ ~ Absolute(s.arg) /\ Normal(Under(DirOf(f), s.arg)) \in Allowed
  BY <1>2, <1>5, <1>10 DEF Complete
<1>12. dir = DirOf(f)
  <2>1. Here = Expected(Top)
    BY <1>3, <1>5 DEF StackInv, PlacesOf, AtHome, Top
  <2> QED BY <1>4, <2>1 DEF Here, Expected
<1>13. Embedded(dir) /\ dir # None
  <2>1. DirOf(f) \in Seq(STRING) /\ DirOf(f) # << >> /\ DirOf(f)[1] = "$"
    BY <1>6, DirOfFile
  <2> QED BY <1>12, <2>1, NoneAssumption DEF Embedded
<1>14. s.op # "includeexternal"
  BY <1>1, <1>11 DEF Loading
<1>15. ASSUME s.op = "dofile" PROVE LoadFile(s.arg) \in Allowed
  <2>1. ~ Absolute(s.arg) /\ Normal(Under(dir, s.arg)) \in Allowed
    BY <1>11, <1>12, <1>15 DEF Loading
  <2>2. ~ Embedded(s.arg)
    BY <2>1 DEF Embedded, Absolute
  <2>3. Builtin(Normal(Under(dir, s.arg)))
    BY <1>2, <2>1 DEF Builtin, Builtins
  <2>4. LoadFile(s.arg) = Normal(Under(dir, s.arg))
    BY <1>13, <2>2, <2>3 DEF LoadFile
  <2> QED BY <2>1, <2>4
<1>16. ASSUME s.op = "include" PROVE LoadFile(FindProjectScript(s.arg)) \in Allowed
  <2>1. s.op \in W /\ Normal(Under(dir, s.arg)) \in Allowed
    BY <1>11, <1>12, <1>16 DEF Loading
  <2>2. phase = "preload" /\ OwnModules /\ Allowed = Builtins
    <3>1. phase # "core"
      BY <1>1, <1>16, <2>1
    <3> QED BY <3>1, AllowedIs DEF Claimed
  <2>3. s.arg \in Included(f)
    BY <1>10, <1>16 DEF Included
  <2>4. cwd = program.start
    BY <1>2 DEF HostPlace
  <2>5. FindProjectScript(s.arg) \in Builtins
    BY <1>2, <1>5, <1>10, <1>13, <2>1, <2>2, <2>3, <2>4, IncludesOwn
  <2> QED BY <1>2, <2>2, <2>5, LocatesItself
<1> QED BY <1>11, <1>14, <1>15, <1>16

\* Nothing catches an error of these scripts.
LEMMA OwnFails ==
  ASSUME CoreInv, Claimed, NEW guard, ~ guard, NEW deep, Fail(guard, deep)
  PROVE  phase' = "failed"
<1>1. \A i \in 1..Len(stack) : ~ stack[i].guarded
  BY DEF CoreInv, AllOf
<1>2. {i \in 1..Len(stack) : stack[i].guarded} = {}
  BY <1>1
<1> QED BY <1>2 DEF Fail

\* One of them is called, by another or by the host.
LEMMA OwnEnters ==
  ASSUME NEW U, NEW c \in Seq(Frame(U)), NEW A, AllOf(A, c), NEW f \in A, Embedded(f),
         cwd = program.start, IF c = << >> THEN dir = None ELSE c[1].saved.dir = None,
         NEW how, NEW guard, ~ guard, Enter(c, f, how, guard)
  PROVE  /\ AllOf(A, stack') /\ cwd' = program.start
         /\ stack' # << >> /\ stack'[1].saved.dir = None
<1> DEFINE fr == [file |-> f, pc |-> 1, how |-> how, guarded |-> guard,
                  saved |-> Here, outer |-> external, leaked |-> FALSE]
           V  == U \union {f, how, guard, external, script, dir, cwd}
<1>1. c \in Seq(Frame(V))
  BY Wider
<1>2. fr \in Frame(V)
  BY DEF Frame, Here
<1>3. stack' = Append(c, fr) /\ cwd' = cwd
  BY DEF Enter
<1>4. /\ fr.file = f /\ ~ fr.guarded /\ ~ fr.leaked /\ fr.saved.cwd = program.start
      /\ fr.saved.dir = dir
  BY DEF Here
<1>e. Len(c) = 0 <=> c = << >>
  OBVIOUS
<1> HIDE DEF fr, V
<1>5. /\ Len(stack') = Len(c) + 1 /\ Len(c) \in Nat
      /\ \A i \in 1..Len(c) : stack'[i] = c[i]
      /\ stack'[Len(c) + 1] = fr
  BY <1>1, <1>2, <1>3, Pushed
<1>6. \A i \in 1..Len(stack') : i \in 1..Len(c) \/ i = Len(c) + 1
  BY <1>5
<1>7. AllOf(A, stack')
  BY <1>4, <1>5, <1>6 DEF AllOf
<1>8. stack'[1].saved.dir = None
  <2>1. CASE Len(c) = 0
    BY <1>4, <1>5, <1>e, <2>1
  <2>2. CASE Len(c) # 0
    <3>1. 1 \in 1..Len(c) /\ c # << >>
      BY <1>5, <1>e, <2>2
    <3> QED BY <1>5, <3>1
  <2> QED BY <2>1, <2>2
<1>9. stack' # << >>
  <2>1. stack' = << >> => Len(stack') = 0
    OBVIOUS
  <2> QED BY <1>5, <2>1
<1> QED BY <1>3, <1>7, <1>8, <1>9

\* The host starts one of them.
LEMMA OwnStarts ==
  ASSUME program' = program, program \in Program, stack = << >>, HostPlace, Claimed',
         NEW f \in Allowed', f \in Builtins, NEW next, Start(f, next)
  PROVE  HostPlace' /\ AllOf(Allowed, stack)'
<1>1. Embedded(f) /\ LoadFile(f) = f
  BY BuiltinIs, LocatesItself
<1>2. phase' # "failed"
  BY DEF Claimed
<1>3. Enter(<< >>, f, "host", FALSE)
  BY <1>1, <1>2 DEF Start
<1> PICK A : A = Allowed'
  OBVIOUS
<1> PICK c : c = << >>
  OBVIOUS
<1>4. c \in Seq(Frame({})) /\ AllOf(A, c) /\ cwd = program.start /\ dir = None
  BY DEF AllOf, HostPlace
<1>5. /\ AllOf(A, stack') /\ cwd' = program.start
      /\ stack' # << >> /\ stack'[1].saved.dir = None
  BY <1>1, <1>3, <1>4, OwnEnters
<1> QED BY <1>5 DEF AllOf, HostPlace

\* What the host starts with is the boot script of the executable.
LEMMA OwnBoot ==
  ASSUME program \in Program, program.release, program.scripts = None, Boot \in Builtins
  PROVE  LocateBoot = Boot
<1> DEFINE env  == OnPath(BootName, program.env)
           disk == IF OnDisk(BootName) THEN Normal(Under(cwd, BootName)) ELSE None
           list == <<None, Boot, disk, env>>
<1>1. Boot # None /\ Builtin(Boot)
  BY BuiltinIs
<1>2. LocateBoot = FirstOf(list)
  BY <1>1 DEF LocateBoot, Boot
<1> DEFINE found == {i \in 1..Len(list) : list[i] # None}
<1>3. Len(list) = 4 /\ list[1] = None /\ list[2] = Boot
  OBVIOUS
<1> HIDE DEF list
<1>4. 2 \in found /\ \A j \in found : 2 <= j
  BY <1>1, <1>3
<1>5. \A i \in found : (\A j \in found : i <= j) => i = 2
  BY <1>3, <1>4
<1>6. First(found) = 2
  BY <1>4, <1>5 DEF First
<1> QED BY <1>2, <1>3, <1>4, <1>6 DEF FirstOf

LEMMA SameClaim ==
  ASSUME program' = program, Claimed', phase' = phase
  PROVE  Claimed /\ Allowed' = Allowed
<1>1. Claimed
  BY SameProgram DEF Claimed
<1>2. Allowed' = Allowed
  BY SameProgram DEF Allowed
<1> QED BY <1>1, <1>2

\* A statement is passed.
LEMMA OwnAdvances ==
  ASSUME StackInv, CoreInv, program' = program, Running, phase' = phase, stack' = Advanced,
         UNCHANGED place, Claimed'
  PROVE  HostPlace' /\ AllOf(Allowed, stack)'
<1> PICK U : stack \in Seq(Frame(U))
  BY DEF StackInv, Shape
<1>1. Claimed /\ Allowed' = Allowed
  BY SameClaim
<1>2. HostPlace /\ AllOf(Allowed, stack) /\ cwd' = cwd
  BY <1>1 DEF CoreInv, place
<1>3. stack # << >>
  BY DEF Running
<1>4. /\ Alike(stack', stack) /\ Len(stack) \in Nat /\ 1 \in 1..Len(stack)
      /\ stack' \in Seq(Frame(U))
  BY <1>3, AdvancedAlike
<1>5. Len(stack') = Len(stack) /\ \A i \in 1..Len(stack) : Same(stack'[i], stack[i])
  BY <1>4 DEF Alike
<1>6. AllOf(Allowed, stack')
  BY <1>2, <1>5 DEF AllOf, Same
<1>7. stack' # << >> /\ stack'[1].saved.dir = None
  <2>1. stack' = << >> => Len(stack') = 0
    OBVIOUS
  <2>2. stack[1].saved.dir = None
    BY <1>2, <1>3 DEF HostPlace
  <2> QED BY <1>4, <1>5, <2>1, <2>2 DEF Same
<1>8. AllOf(Allowed, stack)'
  BY <1>1, <1>6 DEF AllOf
<1> QED BY <1>2, <1>7, <1>8 DEF HostPlace

\* A script is called.
LEMMA OwnRuns ==
  ASSUME StackInv, CoreInv, program' = program, Claimed', Claimed, Allowed' = Allowed, Running,
         NEW f \in Allowed, NEW how, NEW guard, ~ guard, Run(f, how, guard)
  PROVE  HostPlace' /\ AllOf(Allowed, stack)'
<1> PICK U : stack \in Seq(Frame(U))
  BY DEF StackInv, Shape
<1>1. phase' # "failed"
  BY DEF Claimed
<1>2. Enter(Advanced, f, how, guard)
  BY <1>1, OwnFails DEF Run
<1>3. stack # << >> /\ HostPlace /\ AllOf(Allowed, stack) /\ program \in Program
  BY DEF Running, CoreInv
<1> PICK c : c = Advanced
  OBVIOUS
<1>4. /\ Alike(c, stack) /\ c \in Seq(Frame(U)) /\ Len(stack) \in Nat
      /\ 1 \in 1..Len(stack)
  BY <1>3, AdvancedAlike
<1>5. Len(c) = Len(stack) /\ \A i \in 1..Len(stack) : Same(c[i], stack[i])
  BY <1>4 DEF Alike
<1>6. AllOf(Allowed, c)
  BY <1>3, <1>5 DEF AllOf, Same
<1>7. c # << >> /\ c[1].saved.dir = None /\ cwd = program.start
  <2>1. c = << >> => Len(c) = 0
    OBVIOUS
  <2>2. stack[1].saved.dir = None
    BY <1>3 DEF HostPlace
  <2> QED BY <1>3, <1>4, <1>5, <2>1, <2>2 DEF Same, HostPlace
<1>8. Embedded(f)
  BY <1>3, AllowedIs, BuiltinIs
<1> PICK A : A = Allowed
  OBVIOUS
<1>9. /\ AllOf(A, stack') /\ cwd' = program.start
      /\ stack' # << >> /\ stack'[1].saved.dir = None
  BY <1>2, <1>4, <1>6, <1>7, <1>8, OwnEnters
<1>10. AllOf(Allowed, stack)'
  BY <1>9 DEF AllOf
<1> QED BY <1>9, <1>10 DEF HostPlace

\* A script returns.
LEMMA OwnReturns ==
  ASSUME StackInv, CoreInv, program' = program, Claimed', Return
  PROVE  HostPlace' /\ AllOf(Allowed, stack)'
<1> PICK U : stack \in Seq(Frame(U))
  BY DEF StackInv, Shape
<1>1. /\ stack # << >> /\ phase' = phase /\ stack' = SubSeq(stack, 1, Len(stack) - 1)
      /\ dir' = Top.saved.dir /\ cwd' = Top.saved.cwd
  BY DEF Return, Running
<1>2. Claimed /\ Allowed' = Allowed
  BY <1>1, SameClaim
<1>3. HostPlace /\ AllOf(Allowed, stack)
  BY <1>2 DEF CoreInv
<1>4. /\ Len(stack) \in Nat /\ Len(stack) \in 1..Len(stack)
      /\ Len(stack) - 1 \in 0..Len(stack)
  BY <1>1
<1>5. /\ stack' \in Seq(Frame(U)) /\ Len(stack') = Len(stack) - 1
      /\ \A i \in 1..(Len(stack) - 1) : stack'[i] = stack[i]
  BY <1>1, <1>4, Cut
<1>6. AllOf(Allowed, stack)'
  BY <1>2, <1>3, <1>5 DEF AllOf
<1>7. cwd' = program.start
  BY <1>1, <1>3, <1>4 DEF AllOf, Top
<1>8. IF stack' = << >> THEN dir' = None ELSE stack'[1].saved.dir = None
  <2>1. stack[1].saved.dir = None
    BY <1>1, <1>3 DEF HostPlace
  <2>2. CASE Len(stack) = 1
    BY <1>1, <1>5, <2>1, <2>2 DEF Top
  <2>3. CASE Len(stack) # 1
    <3> PICK n : n = Len(stack)
      OBVIOUS
    <3>1. n \in Nat /\ n \in 1..n /\ n # 1
      BY <1>4, <2>3
    <3>2. 1 \in 1..(n - 1)
      BY <3>1
    <3>3. stack'[1] = stack[1] /\ Len(stack') = n - 1
      BY <1>5, <3>2
    <3>4. stack' # << >>
      <4>1. stack' = << >> => Len(stack') = 0
        OBVIOUS
      <4> QED BY <3>2, <3>3, <4>1
    <3> QED BY <2>1, <3>3, <3>4
  <2> QED BY <2>2, <2>3
<1> QED BY <1>6, <1>7, <1>8 DEF HostPlace

\* What the host does between scripts
LEMMA HostKeeps ==
  ASSUME CoreInv, program' = program, Claimed',
         \/ RunCore \/ PrepareEnvironment \/ PreloadModule \/ PreloadAgain \/ RequireModule
         \/ RunSystemScript \/ RunUserScript \/ Finish
  PROVE  HostPlace' /\ AllOf(Allowed, stack)'
<1>1. /\ program \in Program /\ program.release /\ program.scripts = None /\ OwnCore
      /\ phase' = "core" \/ (phase' = "preload" /\ OwnModules)
  BY SameProgram DEF Claimed, CoreInv
<1>2. CASE RunCore
  <2>1. stack = << >> /\ phase = "start" /\ HostPlace
    BY <1>2 DEF RunCore, Idles, CoreInv
  <2>2. Start(LocateBoot, "core") /\ (phase' = "core" \/ phase' = "failed")
    BY <1>2 DEF RunCore, Start
  <2>3. phase' = "core" /\ Boot \in Allowed'
    <3>1. CoreOf' = CoreOf /\ Boot \in CoreOf
      BY <1>1, SameProgram DEF OwnCore, CoreOf
    <3> QED BY <1>1, <2>2, <3>1 DEF Allowed, Boot, BootName
  <2>4. Boot \in Builtins
    BY <1>1 DEF OwnCore, Builtins
  <2>5. LocateBoot = Boot
    BY <1>1, <2>4, OwnBoot
  <2> QED BY <1>1, <2>1, <2>2, <2>3, <2>4, <2>5, OwnStarts
<1>3. CASE PrepareEnvironment
  <2>1. phase = "core" /\ stack = << >> /\ stack' = stack /\ dir' = dir /\ cwd' = cwd
    BY <1>3 DEF PrepareEnvironment, Idles, place
  <2>2. HostPlace
    BY <1>1, <2>1 DEF CoreInv, Claimed
  <2> QED BY <2>1, <2>2 DEF HostPlace, AllOf
<1>4. ASSUME NextModule, phase' = "preload"
      PROVE  /\ stack = << >> /\ Claimed /\ HostPlace /\ dir = None
             /\ Head(pending) \in Modules /\ Allowed' = Builtins
             /\ Preloader(Head(pending)) \in Builtins \union {None}
             /\ ModuleScript(Head(pending)) \in Builtins \union {None}
  <2>1. phase = "preload" /\ stack = << >> /\ pending # << >>
    BY <1>4 DEF NextModule, Idles
  <2>2. OwnModules
    BY <1>1, <1>4
  <2>3. Claimed /\ HostPlace
    BY <1>1, <2>1, <2>2 DEF Claimed, CoreInv
  <2>4. dir = None /\ cwd = program.start
    BY <2>1, <2>3 DEF HostPlace
  <2>5. Head(pending) \in Modules
    BY <2>1 DEF CoreInv
  <2>6. Allowed' = Builtins
    BY <1>4 DEF Allowed, Builtins
  <2> QED BY <1>1, <2>1, <2>2, <2>3, <2>4, <2>5, <2>6, ModulesOwn
<1>5. CASE PreloadModule
  <2>1. /\ NextModule /\ Preloader(Head(pending)) # None
        /\ Start(FindProjectScript(Preloader(Head(pending))), "preload")
    BY <1>5 DEF PreloadModule
  <2>2. phase' = "preload"
    BY <1>1, <2>1 DEF Start
  <2> PICK f : f = Preloader(Head(pending))
    OBVIOUS
  <2>3. f \in Builtins /\ f \in Allowed' /\ dir = None /\ stack = << >> /\ HostPlace
    BY <1>4, <2>1, <2>2
  <2>4. FindProjectScript(f) = f
    BY <1>1, <2>3, FindsItself
  <2>5. Start(f, "preload")
    BY <2>1, <2>4
  <2> QED BY <1>1, <2>3, <2>5, OwnStarts
<1>6. CASE PreloadAgain
  <2>1. NextModule /\ phase' = phase /\ stack' = stack /\ dir' = dir /\ cwd' = cwd
    BY <1>6 DEF PreloadAgain, place
  <2>2. phase = "preload"
    BY <2>1 DEF NextModule, Idles
  <2>3. stack = << >> /\ HostPlace
    BY <1>4, <2>1, <2>2
  <2> QED BY <2>1, <2>3 DEF HostPlace, AllOf
<1>7. CASE RequireModule
  <2>1. NextModule /\ Start(ModuleScript(Head(pending)), "preload")
    BY <1>7 DEF RequireModule
  <2>2. phase' = "preload" /\ Loads(ModuleScript(Head(pending)))
    BY <1>1, <2>1 DEF Start
  <2> PICK f : f = ModuleScript(Head(pending))
    OBVIOUS
  <2>3. f \in Builtins /\ f \in Allowed' /\ stack = << >> /\ HostPlace
    BY <1>4, <2>1, <2>2 DEF Loads
  <2>4. Start(f, "preload")
    BY <2>1
  <2> QED BY <1>1, <2>3, <2>4, OwnStarts
<1>8. CASE RunSystemScript \/ RunUserScript \/ Finish
  <2>1. phase' \in {"system", "user", "done", "failed"}
    BY <1>8 DEF RunSystemScript, RunUserScript, Finish, Start
  <2> QED BY <1>1, <2>1
<1> QED BY <1>2, <1>3, <1>5, <1>6, <1>7, <1>8

\* What a script does
LEMMA StatementKeeps ==
  ASSUME StackInv, CoreInv, program' = program, Claimed',
         \/ IncludeNew \/ IncludeAgain \/ IncludeMissing
         \/ IncludeExternal \/ IncludeExternalMissing \/ DoFile \/ DoFileMissing
         \/ Workspace \/ Project \/ Group \/ OutOfScope \/ RaiseError
  PROVE  HostPlace' /\ AllOf(Allowed, stack)'
<1>1. phase' # "failed"
  BY DEF Claimed
<1>2. ASSUME NEW op, IsAt(op), phase' = phase
      PROVE  /\ Claimed /\ Allowed' = Allowed /\ Running /\ ~ Statement.guard
             /\ op # "includeexternal"
             /\ op = "dofile" => LoadFile(Statement.arg) \in Allowed
             /\ op = "include" => LoadFile(FindProjectScript(Statement.arg)) \in Allowed
  <2>1. Running /\ Top.pc <= Len(Body(Top.file)) /\ Statement.op = op
    BY <1>2 DEF IsAt
  <2>2. Claimed /\ Allowed' = Allowed
    BY <1>2, SameClaim
  <2> QED BY <2>1, <2>2, OwnStatement
<1>3. CASE IncludeAgain \/ Workspace \/ Project \/ Group
  <2>1. Running /\ phase' = phase /\ stack' = Advanced /\ UNCHANGED place
    BY <1>3 DEF IncludeAgain, Workspace, Project, Group, IsAt
  <2> QED BY <2>1, OwnAdvances
<1>4. CASE IncludeMissing \/ IncludeExternalMissing \/ DoFileMissing \/ OutOfScope \/ RaiseError
  <2>1. PICK op : IsAt(op) /\ Fail(Statement.guard, FALSE)
    BY <1>4 DEF IncludeMissing, IncludeExternalMissing, DoFileMissing, NotFound, OutOfScope,
                RaiseError
  <2>2. phase' = phase
    BY <1>1, <2>1 DEF Fail
  <2>3. Claimed /\ ~ Statement.guard
    BY <1>2, <2>1, <2>2
  <2> QED BY <1>1, <2>1, <2>3, OwnFails
<1>5. ASSUME NEW f, NEW how, NEW guard, Run(f, how, guard) PROVE phase' = phase
  BY <1>1, <1>5 DEF Run, Fail
<1>6. CASE IncludeNew
  <2>1. /\ IsAt("include")
        /\ Run(LoadFile(FindProjectScript(Statement.arg)), "include", Statement.guard)
    BY <1>6 DEF IncludeNew
  <2>2. PICK f, guard : f = LoadFile(FindProjectScript(Statement.arg)) /\ guard = Statement.guard
    OBVIOUS
  <2>3. phase' = phase
    BY <1>5, <2>1
  <2>4. Claimed /\ Allowed' = Allowed /\ Running /\ ~ guard /\ f \in Allowed
    BY <1>2, <2>1, <2>2, <2>3
  <2>5. Run(f, "include", guard)
    BY <2>1, <2>2
  <2> QED BY <2>4, <2>5, OwnRuns
<1>7. CASE DoFile
  <2>1. IsAt("dofile") /\ Run(LoadFile(Statement.arg), "dofile", Statement.guard)
    BY <1>7 DEF DoFile
  <2>2. PICK f, guard : f = LoadFile(Statement.arg) /\ guard = Statement.guard
    OBVIOUS
  <2>3. phase' = phase
    BY <1>5, <2>1
  <2>4. Claimed /\ Allowed' = Allowed /\ Running /\ ~ guard /\ f \in Allowed
    BY <1>2, <2>1, <2>2, <2>3
  <2>5. Run(f, "dofile", guard)
    BY <2>1, <2>2
  <2> QED BY <2>4, <2>5, OwnRuns
<1>8. CASE IncludeExternal
  <2>1. PICK f : IsAt("includeexternal") /\ Run(f, "external", Statement.guard)
    BY <1>8 DEF IncludeExternal
  <2>2. phase' = phase
    BY <1>5, <2>1
  <2> QED BY <1>2, <2>1, <2>2
<1> QED BY <1>3, <1>4, <1>6, <1>7, <1>8

LEMMA CoreStep == ASSUME StackInv, CoreInv, [Next]_vars PROVE CoreInv'
<1>1. program' = program
  BY DEF Next, vars, given, RunCore, PrepareEnvironment, PreloadModule, PreloadAgain,
         RequireModule, RunSystemScript, RunUserScript, Finish, IncludeNew, IncludeAgain,
         IncludeMissing, IncludeExternal, IncludeExternalMissing, DoFile, DoFileMissing,
         Workspace, Project, Group, OutOfScope, RaiseError, Return
<1>2. pending' = pending \/ (pending # << >> /\ pending' = Tail(pending))
  BY DEF Next, vars, given, RunCore, PrepareEnvironment, PreloadModule, PreloadAgain,
         RequireModule, RunSystemScript, RunUserScript, Finish, IncludeNew, IncludeAgain,
         IncludeMissing, IncludeExternal, IncludeExternalMissing, DoFile, DoFileMissing,
         Workspace, Project, Group, OutOfScope, RaiseError, Return, NextModule
<1>3. (pending \in Seq(STRING) /\ \A i \in 1..Len(pending) : pending[i] \in Modules)'
  <2>1. Modules' = Modules
    BY <1>1 DEF Modules
  <2>2. pending \in Seq(STRING) /\ \A i \in 1..Len(pending) : pending[i] \in Modules
    BY DEF CoreInv
  <2>3. CASE pending' = pending
    BY <2>1, <2>2, <2>3
  <2>4. CASE pending # << >> /\ pending' = Tail(pending)
    <3>1. /\ Tail(pending) \in Seq(STRING)
          /\ \A i \in 1..Len(Tail(pending)) :
               i + 1 \in 1..Len(pending) /\ Tail(pending)[i] = pending[i + 1]
      BY <2>2, <2>4
    <3> QED BY <2>1, <2>2, <2>4, <3>1
  <2> QED BY <1>2, <2>3, <2>4
<1>4. phase' = "start" => HostPlace'
  <2>1. Next => phase' # "start"
    BY DEF Next, RunCore, PrepareEnvironment, PreloadModule, PreloadAgain,
         RequireModule, RunSystemScript, RunUserScript, Finish, IncludeNew, IncludeAgain,
         IncludeMissing, IncludeExternal, IncludeExternalMissing, DoFile, DoFileMissing,
         Workspace, Project, Group, OutOfScope, RaiseError, Return, NextModule, Start, Idles,
         IsAt, Running, Run, Fail, NotFound, Phases
  <2>2. CASE UNCHANGED vars
    BY <2>2 DEF vars, given, place, CoreInv, HostPlace
  <2> QED BY <2>1, <2>2
<1>5. Claimed' => HostPlace' /\ AllOf(Allowed, stack)'
  <2> SUFFICES ASSUME Claimed' PROVE HostPlace' /\ AllOf(Allowed, stack)'
    OBVIOUS
  <2>1. CASE UNCHANGED vars
    <3>1. phase' = phase /\ stack' = stack /\ dir' = dir /\ cwd' = cwd
      BY <2>1 DEF vars, place
    <3>2. Claimed /\ Allowed' = Allowed
      BY <1>1, <3>1, SameClaim
    <3> QED BY <1>1, <3>1, <3>2 DEF CoreInv, HostPlace, AllOf
  <2>2. CASE Return
    BY <1>1, <2>2, OwnReturns
  <2> QED BY <1>1, <2>1, <2>2, HostKeeps, StatementKeeps DEF Next
<1>6. program' \in Program
  BY <1>1 DEF CoreInv
<1> QED BY <1>3, <1>4, <1>5, <1>6 DEF CoreInv

-----------------------------------------------------------------------------
(* The theorems                                                            *)

IInv == StackInv /\ ContainerInv /\ OnceInv /\ CoreInv

LEMMA Inductive == Spec => []IInv
<1>1. Init => IInv
  <2> SUFFICES ASSUME Init PROVE IInv
    OBVIOUS
  <2>1. StackInv
    BY StackInit
  <2>2. ContainerInv
    <3>1. DOMAIN containers = {}
      BY DEF Init
    <3> QED BY <3>1 DEF ContainerInv
  <2>3. OnceInv
    BY DEF Init, OnceInv
  <2>4. CoreInv
    <3>1. program \in Program /\ pending = program.modules /\ phase = "start"
          /\ stack = << >> /\ dir = None /\ cwd = program.start
      BY DEF Init
    <3>2. pending \in Seq(STRING)
      BY <3>1, ProgramAssumption
    <3> QED BY <3>1, <3>2 DEF CoreInv, Claimed, HostPlace, Modules
  <2> QED BY <2>1, <2>2, <2>3, <2>4 DEF IInv
<1>2. IInv /\ [Next]_vars => IInv'
  BY StackStep, ContainerStep, OnceStep, CoreStep DEF IInv
<1> QED BY <1>1, <1>2, PTL DEF Spec

\* A script that has caught no error runs in its own directory, under its own name,
\* and containers are based where the script that creates them lies.
THEOREM ScriptsKnowTheirPlace == Spec => []KnowsItsPlace
<1>1. IInv => KnowsItsPlace
  <2> SUFFICES ASSUME IInv PROVE KnowsItsPlace
    OBVIOUS
  <2>1. ASSUME Running, ~ Top.leaked
        PROVE  /\ script = Top.file /\ dir = DirOf(Top.file)
               /\ cwd = IF Embedded(Top.file) THEN Top.saved.cwd ELSE Normal(dir)
    <3>1. Here = Expected(Top)
      BY <2>1 DEF IInv, StackInv, PlacesOf, AtHome, Top, Running
    <3>2. Here.script = script /\ Here.dir = dir /\ Here.cwd = cwd
      BY DEF Here
    <3>3. /\ Expected(Top).script = Top.file /\ Expected(Top).dir = DirOf(Top.file)
          /\ Expected(Top).cwd = IF Embedded(Top.file) THEN Top.saved.cwd
                                 ELSE Normal(DirOf(Top.file))
      BY DEF Expected
    <3> QED BY <3>1, <3>2, <3>3
  <2> QED BY <2>1 DEF IInv, ContainerInv, Entry, KnowsItsPlace
<1> QED BY <1>1, Inductive, PTL

\* include runs a script at most once, as long as every name it has recorded is in
\* normal form.
THEOREM IncludedOnce == Spec => []RunsOnce
<1>1. IInv => RunsOnce
  <2> SUFFICES ASSUME IInv, \A f \in included : Normal(f) = f, NEW g \in Files
               PROVE  ran[g] <= 1
    BY DEF RunsOnce
  <2>1. ran[g] = IF g \in included THEN 1 ELSE 0
    BY DEF IInv, OnceInv
  <2> QED BY <2>1
<1> QED BY <1>1, Inductive, PTL

\* Until an error is caught, the flag is set exactly during calls of includeexternal.
THEOREM ExternalScoped == Spec => []ExternalIsScoped
<1>1. IInv => ExternalIsScoped
  <2> SUFFICES ASSUME IInv, ~ caught, Running PROVE external <=> Inside
    BY DEF ExternalIsScoped
  <2>1. Len(stack) \in Nat /\ phase # "failed"
    BY DEF IInv, StackInv, Shape, Running, Phases
  <2>2. Inside <=> Calling(stack)
    BY <2>1 DEF Inside, Calling, CallsBelow
  <2> QED BY <2>1, <2>2 DEF IInv, StackInv, ScopesOf, Exact
<1> QED BY <1>1, Inductive, PTL

\* Containers an external script creates are marked external; those none has named
\* are not, unless an error was caught.
THEOREM MarksFollow == Spec => []MarksFollowScripts
<1>1. IInv => MarksFollowScripts
  BY DEF IInv, ContainerInv, Entry, Marked, MarksFollowScripts
<1> QED BY <1>1, Inductive, PTL

\* The core of a release build runs from the executable, whatever files there are, if it
\* holds all that its boot script reaches; its modules do if, besides, no file has a name
\* that is asked for.
THEOREM CoreIsOwn == Spec => []CoreFromOnePlace
<1>1. IInv => CoreFromOnePlace
  <2> SUFFICES ASSUME IInv, Claimed, NEW i \in 1..Len(stack) PROVE Embedded(stack[i].file)
    BY DEF CoreFromOnePlace, Claimed
  <2>1. stack[i].file \in Builtins /\ program \in Program
    BY AllowedIs DEF IInv, CoreInv, AllOf
  <2> QED BY <2>1, BuiltinIs
<1> QED BY <1>1, Inductive, PTL
=============================================================================
