-------------------------- MODULE AiqManager_proof --------------------------
(***************************************************************************)
(* Proofs about AiqManager: what its calls leave the components in.        *)
(***************************************************************************)
EXTENDS AiqManager, SequenceTheorems, TLAPS

Steps == {"applyStart", "anaStart", "lumaStart", "applyStop", "anaStop",
          "lumaStop", "hwPrepare", "lumaPrepare", "anaPrepare", "apply",
          "prepared", "reapply", "hwStart", "started", "hwStop", "stoped",
          "cmdStop", "anaDeinit", "lumaDeinit", "hwDeinit", "gone", "check",
          "hwPause", "hwSwitch", "hwResume", "switched"}

\* What a call still has to do is its script from some position on.
Left(op, i) == SubSeq(Script[op], i, Len(Script[op]))

-----------------------------------------------------------------------------
(* The inductive invariant: types, for any application. *)

\* A call is at some step of a script, or past its last.
OnScript(a) ==
    \E op \in DOMAIN Script : \E i \in 1..(Len(Script[op]) + 1) :
        call[a].todo = Left(op, i)

Typed ==
    /\ state \in CoreStates /\ mode \in Modes
    /\ apply \in BOOLEAN
    /\ rst \in Seq([mode : Modes, late : BOOLEAN])
    /\ params \in Modes \cup {"none"}
    /\ ana \in [st : CoreStates, mode : Modes]
    /\ luma \in [st : CoreStates, mode : Modes]
    /\ hw \in [st : CoreStates \cup {"paused"}, mode : Modes, on : BOOLEAN]
    /\ cmd \in BOOLEAN
    /\ cmdq \in Seq([from : Users, mode : Modes])
    /\ call \in [Actors -> [todo : Seq(Steps), mode : Modes]]
    /\ \A a \in Actors : OnScript(a)
    /\ sender \in [Users -> {"out", "pushed", "waiting"}]
    /\ ~Idle("cmd") => cmdq # <<>>

-----------------------------------------------------------------------------
(* The inductive invariant: an application that serializes its calls. *)

\* One call at a time, which for a switch is that of the command thread.
Alone ==
    /\ \A u \in Users \ {Main} : Idle(u)
    /\ \A u \in Users : sender[u] # "out" =>
          /\ Idle(Main) /\ state = "started"
          /\ Len(cmdq) = 1 /\ cmdq[1].from = u
    /\ (\A u \in Users : sender[u] = "out") => cmdq = <<>>
    /\ ~Idle("cmd") => \E u \in Users : sender[u] = "waiting"

\* The analyzer is prepared for the mode of the hardware.
Together == "hwPrepare" \notin Faults => ana.mode = hw.mode

Ready == ana.st \in {"prepared", "stoped"} /\ hw.st \in {"prepared", "stoped"}
Alive == ana.st # "invalid" /\ luma.st # "invalid"
Startable == ana.st \in {"prepared", "stoped", "started"} /\ luma.st # "invalid"

\* Between two calls.
Resting ==
    /\ Together
    /\ state # "started" => AllDown
    /\ state \in {"prepared", "stoped"} => Ready
    /\ state = "started" => Startable
    /\ state # "invalid" => Alive

\* Before step i of each call.
OnPrepare(i, m) ==
    /\ state \in {"inited", "prepared", "stoped"}
    /\ AllDown /\ Alive
    /\ state # "inited" => Ready
    /\ i > 1 => hw.st = "prepared"
    /\ i > 3 => ana.st = "prepared"
    /\ i \notin {2, 3} => Together
    /\ i \in {2, 3} => hw.mode = m

OnStart(i) ==
    /\ state \in {"prepared", "stoped"}
    /\ Together
    /\ i <= 2 => ~apply
    /\ i > 2 => apply
    /\ i <= 3 => ana.st \in {"prepared", "stoped"}
    /\ i > 3 => ana.st = "started"
    /\ i <= 4 => luma.st \notin {"started", "invalid"}
    /\ i > 4 => luma.st = "started"
    /\ i <= 5 => ~hw.on /\ hw.st \in {"prepared", "stoped"}
    /\ i > 5 => hw.on

OnStop(i) ==
    /\ state \in {"prepared", "started"}
    /\ Together
    /\ Startable
    /\ state = "prepared" => AllDown /\ Ready
    /\ i > 1 => ~apply
    /\ i > 2 => ana.st # "started"
    /\ i > 3 => luma.st # "started"
    /\ i > 4 => ~hw.on /\ hw.st = "stoped"

OnDeinit(i) == state # "started" /\ AllDown /\ Together

OnSwitch(i, m) ==
    /\ state = "started"
    /\ Startable
    /\ i \in 3..10 => ~apply
    /\ i \in 4..11 => ana.st # "started"
    /\ i \in 5..12 => luma.st # "started"
    /\ i \in 6..9 => ~hw.on
    /\ i > 9 => hw.on
    /\ i > 10 => apply
    /\ i > 11 => ana.st = "started"
    /\ i > 12 => luma.st = "started"
    /\ i # 7 => Together
    /\ i = 7 => hw.mode = m

Working(op, i, m) ==
    /\ op = "prepare" => OnPrepare(i, m)
    /\ op = "start" => OnStart(i)
    /\ op = "stop" => OnStop(i)
    /\ op = "deinit" => OnDeinit(i)
    /\ op = "switch" => OnSwitch(i, m)

Busy(a) ==
    \E op \in DOMAIN Script : \E i \in 1..Len(Script[op]) :
        /\ call[a].todo = Left(op, i)
        /\ op = "switch" <=> a = "cmd"
        /\ Working(op, i, call[a].mode)

InCall == \A a \in Actors : ~Idle(a) => Busy(a)
AtRest == (\A a \in Actors : Idle(a)) => Resting

\* What is queued for the apply thread, unless it came late, waits for a
\* running one and is of the mode of the hardware.
Queued ==
    \A i \in DOMAIN rst :
        \/ rst[i].late
        \/ apply /\ ("hwPrepare" \notin Faults => rst[i].mode = hw.mode)

Inv == Typed /\ Alone /\ InCall /\ AtRest /\ Queued

-----------------------------------------------------------------------------
(* The scripts, step by step. *)

LEMMA StartAnalysisIs ==
    /\ StartAnalysis \in Seq(Steps) /\ Len(StartAnalysis) = 3
    /\ StartAnalysis[1] = "applyStart"
    /\ StartAnalysis[2] = "anaStart"
    /\ StartAnalysis[3] = "lumaStart"
BY DEF StartAnalysis, Steps

LEMMA StopAnalysisIs ==
    /\ StopAnalysis \in Seq(Steps) /\ Len(StopAnalysis) = 3
    /\ StopAnalysis[1] = "applyStop"
    /\ StopAnalysis[2] = "anaStop"
    /\ StopAnalysis[3] = "lumaStop"
BY DEF StopAnalysis, Steps

\* A short list before the analyzers, and what follows them.
LEMMA Framed ==
    ASSUME NEW S, NEW a \in Seq(S), NEW b \in Seq(S), NEW c \in Seq(S),
           Len(a) = 1, Len(b) = 3
    PROVE  /\ (a \o b) \o c \in Seq(S)
           /\ Len((a \o b) \o c) = 4 + Len(c)
           /\ ((a \o b) \o c)[1] = a[1]
           /\ ((a \o b) \o c)[2] = b[1]
           /\ ((a \o b) \o c)[3] = b[2]
           /\ ((a \o b) \o c)[4] = b[3]
           /\ \A i \in 1..Len(c) : ((a \o b) \o c)[4 + i] = c[i]
<1>1. PICK e : e = a \o b
  OBVIOUS
<1>2. /\ Len(a \o b) = Len(a) + Len(b) /\ a \o b \in Seq(S)
      /\ \A i \in 1..(Len(a) + Len(b)) :
            (a \o b)[i] = IF i <= Len(a) THEN a[i] ELSE b[i - Len(a)]
  BY ConcatProperties
<1>3. /\ e \in Seq(S) /\ Len(e) = 4
      /\ e[1] = a[1] /\ e[2] = b[1] /\ e[3] = b[2] /\ e[4] = b[3]
  BY <1>1, <1>2
<1>4. /\ Len(e \o c) = Len(e) + Len(c) /\ e \o c \in Seq(S)
      /\ \A i \in 1..(Len(e) + Len(c)) :
            (e \o c)[i] = IF i <= Len(e) THEN e[i] ELSE c[i - Len(e)]
  BY <1>3, ConcatProperties
<1>5. Len(c) \in Nat
  OBVIOUS
<1>6. PICK d : d = e \o c
  OBVIOUS
<1>7. /\ d \in Seq(S) /\ Len(d) = 4 + Len(c)
      /\ d[1] = e[1] /\ d[2] = e[2] /\ d[3] = e[3] /\ d[4] = e[4]
      /\ \A i \in 1..Len(c) : d[4 + i] = c[i]
  BY <1>3, <1>4, <1>5, <1>6
<1> QED
  BY <1>1, <1>3, <1>6, <1>7

LEMMA StartStepsAre ==
    /\ StartSteps \in Seq(Steps) /\ Len(StartSteps) = 6
    /\ StartSteps[1] = "reapply"
    /\ StartSteps[2] = "applyStart"
    /\ StartSteps[3] = "anaStart"
    /\ StartSteps[4] = "lumaStart"
    /\ StartSteps[5] = "hwStart"
    /\ StartSteps[6] = "started"
<1>1. PICK a : a = <<"reapply">>
  OBVIOUS
<1>2. PICK b : b = StartAnalysis
  OBVIOUS
<1>3. PICK c : c = <<"hwStart", "started">>
  OBVIOUS
<1>4. a \in Seq(Steps) /\ Len(a) = 1 /\ a[1] = "reapply"
  BY <1>1 DEF Steps
<1>5. /\ b \in Seq(Steps) /\ Len(b) = 3
      /\ b[1] = "applyStart" /\ b[2] = "anaStart" /\ b[3] = "lumaStart"
  BY <1>2, StartAnalysisIs
<1>6. c \in Seq(Steps) /\ Len(c) = 2 /\ c[1] = "hwStart" /\ c[2] = "started"
  BY <1>3 DEF Steps
<1>7. StartSteps = (a \o b) \o c
  BY <1>1, <1>2, <1>3 DEF StartSteps
<1>8. /\ StartSteps \in Seq(Steps) /\ Len(StartSteps) = 4 + Len(c)
      /\ StartSteps[1] = a[1] /\ StartSteps[2] = b[1]
      /\ StartSteps[3] = b[2] /\ StartSteps[4] = b[3]
      /\ \A i \in 1..Len(c) : StartSteps[4 + i] = c[i]
  <2>1. a \in Seq(Steps) /\ b \in Seq(Steps) /\ c \in Seq(Steps)
        /\ Len(a) = 1 /\ Len(b) = 3
    BY <1>4, <1>5, <1>6
  <2>2. /\ (a \o b) \o c \in Seq(Steps)
        /\ Len((a \o b) \o c) = 4 + Len(c)
        /\ ((a \o b) \o c)[1] = a[1]
        /\ ((a \o b) \o c)[2] = b[1]
        /\ ((a \o b) \o c)[3] = b[2]
        /\ ((a \o b) \o c)[4] = b[3]
        /\ \A i \in 1..Len(c) : ((a \o b) \o c)[4 + i] = c[i]
    BY <2>1, Framed, SMTT(30)
  <2> QED
    BY <1>7, <2>2
<1>9. StartSteps[5] = c[1] /\ StartSteps[6] = c[2]
  BY <1>6, <1>8
<1> QED
  BY <1>4, <1>5, <1>6, <1>8, <1>9

LEMMA ResumeIs ==
    /\ Resume \in Seq(Steps) /\ Len(Resume) = 5
    /\ Resume[1] = "hwResume"
    /\ Resume[2] = "applyStart"
    /\ Resume[3] = "anaStart"
    /\ Resume[4] = "lumaStart"
    /\ Resume[5] = "switched"
<1>1. PICK a : a = <<"hwResume">>
  OBVIOUS
<1>2. PICK b : b = StartAnalysis
  OBVIOUS
<1>3. PICK c : c = <<"switched">>
  OBVIOUS
<1>4. a \in Seq(Steps) /\ Len(a) = 1 /\ a[1] = "hwResume"
  BY <1>1 DEF Steps
<1>5. /\ b \in Seq(Steps) /\ Len(b) = 3
      /\ b[1] = "applyStart" /\ b[2] = "anaStart" /\ b[3] = "lumaStart"
  BY <1>2, StartAnalysisIs
<1>6. c \in Seq(Steps) /\ Len(c) = 1 /\ c[1] = "switched"
  BY <1>3 DEF Steps
<1>7. Resume = (a \o b) \o c
  BY <1>1, <1>2, <1>3 DEF Resume
<1>8. /\ Resume \in Seq(Steps) /\ Len(Resume) = 4 + Len(c)
      /\ Resume[1] = a[1] /\ Resume[2] = b[1]
      /\ Resume[3] = b[2] /\ Resume[4] = b[3]
      /\ \A i \in 1..Len(c) : Resume[4 + i] = c[i]
  <2>1. a \in Seq(Steps) /\ b \in Seq(Steps) /\ c \in Seq(Steps)
        /\ Len(a) = 1 /\ Len(b) = 3
    BY <1>4, <1>5, <1>6
  <2>2. /\ (a \o b) \o c \in Seq(Steps)
        /\ Len((a \o b) \o c) = 4 + Len(c)
        /\ ((a \o b) \o c)[1] = a[1]
        /\ ((a \o b) \o c)[2] = b[1]
        /\ ((a \o b) \o c)[3] = b[2]
        /\ ((a \o b) \o c)[4] = b[3]
        /\ \A i \in 1..Len(c) : ((a \o b) \o c)[4 + i] = c[i]
    BY <2>1, Framed, SMTT(30)
  <2> QED
    BY <1>7, <2>2
<1>9. Resume[5] = c[1]
  BY <1>6, <1>8
<1> QED
  BY <1>4, <1>5, <1>6, <1>8, <1>9

LEMMA StopStepsAre ==
    /\ StopSteps \in Seq(Steps) /\ Len(StopSteps) = 5
    /\ StopSteps[1] = "applyStop"
    /\ StopSteps[2] = "anaStop"
    /\ StopSteps[3] = "lumaStop"
    /\ StopSteps[4] = "hwStop"
    /\ StopSteps[5] = "stoped"
<1>1. PICK b : b = StopAnalysis
  OBVIOUS
<1>2. PICK c : c = <<"hwStop", "stoped">>
  OBVIOUS
<1>3. /\ b \in Seq(Steps) /\ Len(b) = 3
      /\ b[1] = "applyStop" /\ b[2] = "anaStop" /\ b[3] = "lumaStop"
  BY <1>1, StopAnalysisIs
<1>4. c \in Seq(Steps) /\ Len(c) = 2 /\ c[1] = "hwStop" /\ c[2] = "stoped"
  BY <1>2 DEF Steps
<1>5. /\ Len(b \o c) = Len(b) + Len(c) /\ b \o c \in Seq(Steps)
      /\ \A i \in 1..(Len(b) + Len(c)) :
            (b \o c)[i] = IF i <= Len(b) THEN b[i] ELSE c[i - Len(b)]
  BY <1>3, <1>4, ConcatProperties
<1>6. StopSteps = b \o c
  BY <1>1, <1>2 DEF StopSteps
<1> QED
  BY <1>3, <1>4, <1>5, <1>6

LEMMA SwitchStepsAre ==
    /\ SwitchSteps \in Seq(Steps) /\ Len(SwitchSteps) = 13
    /\ SwitchSteps[1] = "check"
    /\ SwitchSteps[2] = "applyStop"
    /\ SwitchSteps[3] = "anaStop"
    /\ SwitchSteps[4] = "lumaStop"
    /\ SwitchSteps[5] = "hwPause"
    /\ SwitchSteps[6] = "hwSwitch"
    /\ SwitchSteps[7] = "anaPrepare"
    /\ SwitchSteps[8] = "apply"
    /\ SwitchSteps[9] = "hwResume"
    /\ SwitchSteps[10] = "applyStart"
    /\ SwitchSteps[11] = "anaStart"
    /\ SwitchSteps[12] = "lumaStart"
    /\ SwitchSteps[13] = "switched"
    /\ SubSeq(SwitchSteps, 9, 13) = Resume
<1>1. PICK a : a = <<"check">>
  OBVIOUS
<1>2. PICK b : b = StopAnalysis
  OBVIOUS
<1>3. PICK c : c = <<"hwPause", "hwSwitch", "anaPrepare", "apply">>
  OBVIOUS
<1>4. a \in Seq(Steps) /\ Len(a) = 1 /\ a[1] = "check"
  BY <1>1 DEF Steps
<1>5. /\ b \in Seq(Steps) /\ Len(b) = 3
      /\ b[1] = "applyStop" /\ b[2] = "anaStop" /\ b[3] = "lumaStop"
  BY <1>2, StopAnalysisIs
<1>6. /\ c \in Seq(Steps) /\ Len(c) = 4
      /\ c[1] = "hwPause" /\ c[2] = "hwSwitch"
      /\ c[3] = "anaPrepare" /\ c[4] = "apply"
  BY <1>3 DEF Steps
<1>7. PICK d : d = (a \o b) \o c
  OBVIOUS
<1>8. PICK r : r = Resume
  OBVIOUS
<1>9. SwitchSteps = d \o r
  BY <1>1, <1>2, <1>3, <1>7, <1>8 DEF SwitchSteps
<1>10. /\ d \in Seq(Steps) /\ Len(d) = 4 + Len(c)
       /\ d[1] = a[1] /\ d[2] = b[1] /\ d[3] = b[2] /\ d[4] = b[3]
       /\ \A i \in 1..Len(c) : d[4 + i] = c[i]
  <2>1. a \in Seq(Steps) /\ b \in Seq(Steps) /\ c \in Seq(Steps)
        /\ Len(a) = 1 /\ Len(b) = 3
    BY <1>4, <1>5, <1>6
  <2>2. /\ (a \o b) \o c \in Seq(Steps)
        /\ Len((a \o b) \o c) = 4 + Len(c)
        /\ ((a \o b) \o c)[1] = a[1]
        /\ ((a \o b) \o c)[2] = b[1]
        /\ ((a \o b) \o c)[3] = b[2]
        /\ ((a \o b) \o c)[4] = b[3]
        /\ \A i \in 1..Len(c) : ((a \o b) \o c)[4 + i] = c[i]
    BY <2>1, Framed, SMTT(30)
  <2> QED
    BY <1>7, <2>2
<1>11. d[5] = c[1] /\ d[6] = c[2] /\ d[7] = c[3] /\ d[8] = c[4] /\ Len(d) = 8
  BY <1>6, <1>10
<1>12. r \in Seq(Steps) /\ Len(r) = 5
  BY <1>8, ResumeIs
<1>13. d \in Seq(Steps) /\ r \in Seq(Steps)
  BY <1>10, <1>12
<1>14. /\ Len(d \o r) = Len(d) + Len(r) /\ d \o r \in Seq(Steps)
       /\ \A i \in 1..(Len(d) + Len(r)) :
             (d \o r)[i] = IF i <= Len(d) THEN d[i] ELSE r[i - Len(d)]
  BY <1>13, ConcatProperties
<1>15. PICK s : s = d \o r
  OBVIOUS
<1>16. /\ s \in Seq(Steps) /\ Len(s) = 13
       /\ \A i \in 1..8 : s[i] = d[i]
       /\ s[9] = r[1] /\ s[10] = r[2] /\ s[11] = r[3] /\ s[12] = r[4]
       /\ s[13] = r[5]
  <2>1. Len(d) = 8 /\ Len(r) = 5
    BY <1>11, <1>12
  <2>2. /\ s \in Seq(Steps) /\ Len(s) = Len(d) + Len(r)
        /\ \A i \in 1..(Len(d) + Len(r)) :
              s[i] = IF i <= Len(d) THEN d[i] ELSE r[i - Len(d)]
    BY <1>14, <1>15
  <2>3. /\ Len(s) = 13
        /\ \A i \in 1..13 : s[i] = IF i <= 8 THEN d[i] ELSE r[i - 8]
    BY <2>1, <2>2
  <2>4. \A i \in 1..8 : s[i] = d[i]
    BY <2>3
  <2>5. s[9] = r[9 - 8] /\ s[10] = r[10 - 8] /\ s[11] = r[11 - 8]
    BY <2>3
  <2>6. s[12] = r[12 - 8] /\ s[13] = r[13 - 8]
    BY <2>3
  <2>7. s[9] = r[1] /\ s[10] = r[2] /\ s[11] = r[3]
    BY <2>5
  <2>8. s[12] = r[4] /\ s[13] = r[5]
    BY <2>6
  <2> QED
    BY <2>2, <2>3, <2>4, <2>7, <2>8
<1>17. SubSeq(s, 9, 13) = r
  <2>1. \A i \in 9..13 : s[i] \in Steps
    <3>1. s \in [1..13 -> Steps]
      BY <1>16, LenProperties
    <3> QED
      BY <3>1
  <2>2. /\ SubSeq(s, 9, 13) \in Seq(Steps)
        /\ Len(SubSeq(s, 9, 13)) = IF 9 <= 13 THEN 13 - 9 + 1 ELSE 0
        /\ \A i \in 1..(13 - 9 + 1) : SubSeq(s, 9, 13)[i] = s[9 + i - 1]
    BY <2>1, SubSeqProperties
  <2>3. \A i \in 1..5 : SubSeq(s, 9, 13)[i] = r[i]
    BY <1>16, <2>2
  <2> QED
    BY <1>12, <2>2, <2>3, SeqEqual
<1>18. /\ s[1] = "check" /\ s[2] = "applyStop" /\ s[3] = "anaStop"
       /\ s[4] = "lumaStop" /\ s[5] = "hwPause" /\ s[6] = "hwSwitch"
       /\ s[7] = "anaPrepare" /\ s[8] = "apply"
  BY <1>4, <1>5, <1>6, <1>10, <1>11, <1>16
<1>19. /\ s[9] = "hwResume" /\ s[10] = "applyStart" /\ s[11] = "anaStart"
       /\ s[12] = "lumaStart" /\ s[13] = "switched"
  BY <1>8, <1>16, ResumeIs
<1> QED
  BY <1>8, <1>9, <1>15, <1>16, <1>17, <1>18, <1>19, ZenonT(30)

\* Each script, and its length.
LEMMA Scripts ==
    /\ DOMAIN Script = {"prepare", "start", "stop", "deinit", "switch"}
    /\ Script["prepare"] = PrepareSteps
    /\ Script["start"] = StartSteps
    /\ Script["stop"] = StopSteps
    /\ Script["deinit"] = DeinitSteps
    /\ Script["switch"] = SwitchSteps
BY DEF Script

LEMMA Lengths ==
    /\ Len(Script["prepare"]) = 5
    /\ Len(Script["start"]) = 6
    /\ Len(Script["stop"]) = 5
    /\ Len(Script["deinit"]) = 5
    /\ Len(Script["switch"]) = 13
    /\ \A op \in DOMAIN Script : Script[op] \in Seq(Steps)
<1>1. PrepareSteps \in Seq(Steps) /\ Len(PrepareSteps) = 5
  BY DEF PrepareSteps, Steps
<1>2. DeinitSteps \in Seq(Steps) /\ Len(DeinitSteps) = 5
  BY DEF DeinitSteps, Steps
<1> QED
  BY <1>1, <1>2, Scripts, StartStepsAre, StopStepsAre, SwitchStepsAre

\* Which step is where.
LEMMA Places ==
    ASSUME NEW op \in DOMAIN Script, NEW i \in 1..Len(Script[op])
    PROVE  LET x == Script[op][i]
           IN  \/ op = "prepare" /\ \/ i = 1 /\ x = "hwPrepare"
                                    \/ i = 2 /\ x = "lumaPrepare"
                                    \/ i = 3 /\ x = "anaPrepare"
                                    \/ i = 4 /\ x = "apply"
                                    \/ i = 5 /\ x = "prepared"
               \/ op = "start" /\ \/ i = 1 /\ x = "reapply"
                                  \/ i = 2 /\ x = "applyStart"
                                  \/ i = 3 /\ x = "anaStart"
                                  \/ i = 4 /\ x = "lumaStart"
                                  \/ i = 5 /\ x = "hwStart"
                                  \/ i = 6 /\ x = "started"
               \/ op = "stop" /\ \/ i = 1 /\ x = "applyStop"
                                 \/ i = 2 /\ x = "anaStop"
                                 \/ i = 3 /\ x = "lumaStop"
                                 \/ i = 4 /\ x = "hwStop"
                                 \/ i = 5 /\ x = "stoped"
               \/ op = "deinit" /\ \/ i = 1 /\ x = "cmdStop"
                                   \/ i = 2 /\ x = "anaDeinit"
                                   \/ i = 3 /\ x = "lumaDeinit"
                                   \/ i = 4 /\ x = "hwDeinit"
                                   \/ i = 5 /\ x = "gone"
               \/ op = "switch" /\ \/ i = 1 /\ x = "check"
                                   \/ i = 2 /\ x = "applyStop"
                                   \/ i = 3 /\ x = "anaStop"
                                   \/ i = 4 /\ x = "lumaStop"
                                   \/ i = 5 /\ x = "hwPause"
                                   \/ i = 6 /\ x = "hwSwitch"
                                   \/ i = 7 /\ x = "anaPrepare"
                                   \/ i = 8 /\ x = "apply"
                                   \/ i = 9 /\ x = "hwResume"
                                   \/ i = 10 /\ x = "applyStart"
                                   \/ i = 11 /\ x = "anaStart"
                                   \/ i = 12 /\ x = "lumaStart"
                                   \/ i = 13 /\ x = "switched"
<1>1. CASE op = "prepare"
  <2>1. /\ PrepareSteps[1] = "hwPrepare" /\ PrepareSteps[2] = "lumaPrepare"
        /\ PrepareSteps[3] = "anaPrepare" /\ PrepareSteps[4] = "apply"
        /\ PrepareSteps[5] = "prepared"
    BY DEF PrepareSteps
  <2>2. i \in 1..5
    BY <1>1, Lengths
  <2> QED
    BY <1>1, <2>1, <2>2, Scripts
<1>2. CASE op = "start"
  <2>1. i \in 1..6
    BY <1>2, Lengths
  <2> QED
    BY <1>2, <2>1, Scripts, StartStepsAre
<1>3. CASE op = "stop"
  <2>1. i \in 1..5
    BY <1>3, Lengths
  <2> QED
    BY <1>3, <2>1, Scripts, StopStepsAre
<1>4. CASE op = "deinit"
  <2>1. /\ DeinitSteps[1] = "cmdStop" /\ DeinitSteps[2] = "anaDeinit"
        /\ DeinitSteps[3] = "lumaDeinit" /\ DeinitSteps[4] = "hwDeinit"
        /\ DeinitSteps[5] = "gone"
    BY DEF DeinitSteps
  <2>2. i \in 1..5
    BY <1>4, Lengths
  <2> QED
    BY <1>4, <2>1, <2>2, Scripts
<1>5. CASE op = "switch"
  <2>1. i \in 1..13
    BY <1>5, Lengths
  <2> QED
    BY <1>5, <2>1, Scripts, SwitchStepsAre
<1> QED
  BY <1>1, <1>2, <1>3, <1>4, <1>5, Scripts

\* The step a call is before, and what is left after it.
LEMMA Ahead ==
    ASSUME NEW op \in DOMAIN Script, NEW i \in 1..(Len(Script[op]) + 1)
    PROVE  /\ Left(op, i) \in Seq(Steps)
           /\ Left(op, i) = <<>> <=> i = Len(Script[op]) + 1
           /\ i <= Len(Script[op]) => /\ Head(Left(op, i)) = Script[op][i]
                                      /\ Tail(Left(op, i)) = Left(op, i + 1)
<1> DEFINE s == Script[op]
<1>1. s \in Seq(Steps)
  BY Lengths
<1>2. Len(s) \in Nat
  BY <1>1
<1> HIDE DEF s
<1>3. i \in Int /\ \A j \in i..Len(s) : s[j] \in Steps
  BY <1>1, <1>2, ElementOfSeq DEF s
<1>4. /\ SubSeq(s, i, Len(s)) \in Seq(Steps)
      /\ Len(SubSeq(s, i, Len(s))) =
            IF i <= Len(s) THEN Len(s) - i + 1 ELSE 0
  BY <1>2, <1>3, SubSeqProperties
<1>5. CASE i = Len(s) + 1
  <2>1. SubSeq(s, i, Len(s)) = <<>>
    BY <1>2, <1>5, SubSeqEmpty
  <2> QED
    BY <1>2, <1>4, <1>5, <2>1 DEF Left, s
<1>6. CASE i \in 1..Len(s)
  <2>1. /\ Head(SubSeq(s, i, Len(s))) = s[i]
        /\ Tail(SubSeq(s, i, Len(s))) = SubSeq(s, i + 1, Len(s))
    BY <1>1, <1>2, <1>6, HeadTailOfSubSeq
  <2>2. Len(SubSeq(s, i, Len(s))) # Len(<<>>)
    BY <1>2, <1>4, <1>6
  <2>3. SubSeq(s, i, Len(s)) # <<>>
    BY <2>2, Zenon
  <2>4. i # Len(s) + 1
    BY <1>2, <1>6
  <2> QED
    BY <1>4, <2>1, <2>3, <2>4 DEF Left, s
<1> QED
  BY <1>2, <1>5, <1>6 DEF s

\* A refused switch goes on where the hardware is resumed.
LEMMA Restarted == Left("switch", 9) = Resume
BY Scripts, Lengths, SwitchStepsAre DEF Left

LEMMA LeftIsSuffix ==
    ASSUME NEW op \in DOMAIN Script, NEW i \in 1..(Len(Script[op]) + 1)
    PROVE  IsSuffix(Left(op, i), Script[op])
<1> DEFINE s == Script[op]
           n == Len(s)
           t == Left(op, i)
<1>1. s \in Seq(Steps) /\ n \in Nat /\ i \in Nat
  BY Lengths
<1>2. /\ t \in Seq(Steps) /\ Len(t) = n - i + 1
      /\ \A j \in 1..Len(t) : t[j] = s[i + j - 1]
  <2>1. \A j \in i..n : s[j] \in Steps
    BY <1>1, ElementOfSeq
  <2> HIDE DEF s
  <2>2. /\ SubSeq(s, i, n) \in Seq(Steps)
        /\ Len(SubSeq(s, i, n)) = IF i <= n THEN n - i + 1 ELSE 0
        /\ \A j \in 1..(n - i + 1) : SubSeq(s, i, n)[j] = s[i + j - 1]
    BY <1>1, <2>1, SubSeqProperties
  <2>3. t = SubSeq(s, i, n)
    BY DEF Left, s
  <2> QED
    BY <1>1, <2>2, <2>3 DEF s
<1> DEFINE k == Len(t)
<1> HIDE DEF s, n, t, k
<1>3. k \in Nat /\ k = n - i + 1 /\ k <= n
  BY <1>1, <1>2 DEF n, s, k
<1>4. /\ Reverse(t) = [j \in 1..k |-> t[k - j + 1]]
      /\ Reverse(s) = [j \in 1..n |-> s[n - j + 1]]
  BY DEF Reverse, k, n
<1>5. /\ \A j \in 1..k : t[k - j + 1] \in Steps
      /\ \A j \in 1..n : s[n - j + 1] \in Steps
  <2>1. t \in [1..k -> Steps] /\ s \in [1..n -> Steps]
    BY <1>1, <1>2, LenProperties DEF k, n
  <2> QED
    BY <1>1, <1>3, <2>1
<1>6. /\ Reverse(t) \in Seq(Steps) /\ Len(Reverse(t)) = k
      /\ Reverse(s) \in Seq(Steps) /\ Len(Reverse(s)) = n
  BY <1>1, <1>3, <1>4, <1>5
<1>7. \A j \in 1..k : Reverse(t)[j] = Reverse(s)[j]
  <2> SUFFICES ASSUME NEW j \in 1..k PROVE Reverse(t)[j] = Reverse(s)[j]
    OBVIOUS
  <2>1. Reverse(t)[j] = t[k - j + 1] /\ Reverse(s)[j] = s[n - j + 1]
    BY <1>1, <1>3, <1>4
  <2>2. PICK m \in 1..k : m = k - j + 1
    BY <1>3
  <2>3. t[m] = s[i + m - 1]
    BY <1>2 DEF k
  <2>4. i + m - 1 = n - j + 1
    BY <1>1, <1>3, <2>2
  <2> QED
    BY <2>1, <2>2, <2>3, <2>4
<1>8. SubSeq(Reverse(t), 1, k) = SubSeq(Reverse(s), 1, k)
  <2> DEFINE u == SubSeq(Reverse(t), 1, k)
             v == SubSeq(Reverse(s), 1, k)
  <2>1. \A j \in 1..k : Reverse(t)[j] \in Steps /\ Reverse(s)[j] \in Steps
    BY <1>1, <1>3, <1>4, <1>5, <1>7
  <2>2. /\ u \in Seq(Steps) /\ Len(u) = IF 1 <= k THEN k - 1 + 1 ELSE 0
        /\ \A j \in 1..(k - 1 + 1) : u[j] = Reverse(t)[1 + j - 1]
    BY <1>3, <2>1, SubSeqProperties
  <2>3. /\ v \in Seq(Steps) /\ Len(v) = IF 1 <= k THEN k - 1 + 1 ELSE 0
        /\ \A j \in 1..(k - 1 + 1) : v[j] = Reverse(s)[1 + j - 1]
    BY <1>3, <2>1, SubSeqProperties
  <2> HIDE DEF u, v
  <2>4. Len(u) = k /\ Len(v) = k
    BY <1>3, <2>2, <2>3
  <2>5. \A j \in 1..k : u[j] = v[j]
    BY <1>3, <1>7, <2>2, <2>3
  <2>6. u = v
    BY <2>2, <2>3, <2>4, <2>5, SeqEqual
  <2> QED
    BY <2>6 DEF u, v
<1>9. IsPrefix(Reverse(t), Reverse(s))
  BY <1>3, <1>6, <1>8 DEF IsPrefix
<1> QED
  BY <1>9 DEF IsSuffix, t, s

LEMMA TypedIsTypeOK == Typed => TypeOK
<1> SUFFICES ASSUME Typed PROVE TypeOK
  OBVIOUS
<1>1. ASSUME NEW a \in Actors
      PROVE  /\ call[a].mode \in Modes
             /\ \E op \in DOMAIN Script : IsSuffix(call[a].todo, Script[op])
  <2>1. PICK op \in DOMAIN Script : \E i \in 1..(Len(Script[op]) + 1) :
                                        call[a].todo = Left(op, i)
    BY DEF Typed, OnScript
  <2>2. IsSuffix(call[a].todo, Script[op])
    BY <2>1, LeftIsSuffix
  <2>3. call[a] \in [todo : Seq(Steps), mode : Modes]
    BY DEF Typed
  <2> QED
    BY <2>2, <2>3
<1> QED
  BY <1>1 DEF Typed, TypeOK

-----------------------------------------------------------------------------
(* Types are kept. *)

\* What a step of a call does to the call and to the command queue.
Refuse(a) ==
    /\ At(a, "hwSwitch")
    /\ call' = [call EXCEPT ![a].todo = Resume]
    /\ UNCHANGED <<cmdq, sender>>

LEMMA Outcomes ==
    ASSUME NEW a \in Actors, Lifecycle(a)
    PROVE  /\ call[a].todo # <<>>
           /\ Advance(a) \/ Return(a) \/ Refuse(a)
<1> USE DEF At, Checked, Outcome, Refuse
<1>1. CASE ApplyStart(a) \/ ApplyStop(a) \/ Reapply(a) \/ AnaStop(a)
             \/ LumaPrepare(a) \/ LumaStop(a) \/ HwDeinit(a) \/ CmdStop(a)
  BY <1>1 DEF ApplyStart, ApplyStop, Reapply, AnaStop, LumaPrepare, LumaStop,
              HwDeinit, CmdStop
<1>2. CASE ApplyInit(a) \/ HwStop(a) \/ HwPause(a) \/ HwResume(a)
  BY <1>2 DEF ApplyInit, HwStop, HwPause, HwResume, HwSet
<1>3. CASE AnaPrepare(a) \/ AnaStart(a) \/ AnaDeinit(a)
  BY <1>3 DEF AnaPrepare, AnaStart, AnaDeinit
<1>4. CASE LumaStart(a) \/ LumaDeinit(a) \/ CheckSwitch(a)
  BY <1>4 DEF LumaStart, LumaDeinit, CheckSwitch
<1>5. CASE HwPrepare(a) \/ HwStart(a) \/ HwSwitch(a)
  BY <1>5 DEF HwPrepare, HwStart, HwSwitch
<1>6. CASE Prepared(a) \/ Started(a) \/ Stoped(a) \/ Switched(a) \/ Gone(a)
  BY <1>6 DEF Prepared, Started, Stoped, Switched, Gone
<1> QED
  BY <1>1, <1>2, <1>3, <1>4, <1>5, <1>6 DEF Lifecycle

\* A call moves along its script.
LEMMA Moves ==
    ASSUME Typed, NEW a \in Actors, NEW op \in DOMAIN Script,
           NEW i \in 1..Len(Script[op]), call[a].todo = Left(op, i)
    PROVE  /\ i + 1 \in 1..(Len(Script[op]) + 1)
           /\ Advance(a) =>
                 call' = [call EXCEPT ![a] = [todo |-> Left(op, i + 1),
                                              mode |-> call[a].mode]]
           /\ Refuse(a) =>
                 call' = [call EXCEPT ![a] = [todo |-> Left("switch", 9),
                                              mode |-> call[a].mode]]
<1>1. Len(Script[op]) \in Nat
  BY Lengths
<1>2. call[a] \in [todo : Seq(Steps), mode : Modes]
  BY DEF Typed
<1>3. Tail(call[a].todo) = Left(op, i + 1)
  BY <1>1, Ahead
<1>4. call \in [Actors -> [todo : Seq(Steps), mode : Modes]]
  BY DEF Typed
<1>5. ASSUME Advance(a)
      PROVE  call' = [call EXCEPT ![a] = [todo |-> Left(op, i + 1),
                                          mode |-> call[a].mode]]
  <2>1. call' = [call EXCEPT ![a].todo = Left(op, i + 1)]
    BY <1>3, <1>5 DEF Advance
  <2>2. [call[a] EXCEPT !.todo = Left(op, i + 1)]
           = [todo |-> Left(op, i + 1), mode |-> call[a].mode]
    BY <1>2
  <2> QED
    BY <1>4, <2>1, <2>2
<1>6. ASSUME Refuse(a)
      PROVE  call' = [call EXCEPT ![a] = [todo |-> Left("switch", 9),
                                          mode |-> call[a].mode]]
  <2>1. call' = [call EXCEPT ![a].todo = Left("switch", 9)]
    BY <1>6, Restarted DEF Refuse
  <2>2. [call[a] EXCEPT !.todo = Left("switch", 9)]
           = [todo |-> Left("switch", 9), mode |-> call[a].mode]
    BY <1>2
  <2> QED
    BY <1>4, <2>1, <2>2
<1> QED
  BY <1>1, <1>5, <1>6

LEMMA NoCallTyped ==
    ASSUME ManagerAssumption
    PROVE  /\ NoCall \in [todo : Seq(Steps), mode : Modes]
           /\ NoCall.todo = Left("stop", 6)
           /\ "stop" \in DOMAIN Script /\ 6 \in 1..(Len(Script["stop"]) + 1)
<1>1. "stop" \in DOMAIN Script /\ Len(Script["stop"]) = 5
  BY Scripts, Lengths
<1>2. Left("stop", 6) = <<>>
  <2>1. 6 \in 1..(Len(Script["stop"]) + 1) /\ 6 = Len(Script["stop"]) + 1
    BY <1>1
  <2> QED
    BY <1>1, <2>1, Ahead
<1> QED
  BY <1>1, <1>2 DEF NoCall, ManagerAssumption

\* The part of Typed that the steps of a call share.
CallsTyped ==
    /\ cmdq \in Seq([from : Users, mode : Modes])
    /\ call \in [Actors -> [todo : Seq(Steps), mode : Modes]]
    /\ \A a \in Actors : OnScript(a)
    /\ sender \in [Users -> {"out", "pushed", "waiting"}]
    /\ ~Idle("cmd") => cmdq # <<>>

LEMMA CallTypedNext ==
    ASSUME ManagerAssumption, Typed, NEW a \in Actors, Lifecycle(a)
    PROVE  CallsTyped'
<1>1. call[a].todo # <<>> /\ (Advance(a) \/ Return(a) \/ Refuse(a))
  BY Outcomes
<1>2. PICK op \in DOMAIN Script :
             \E i \in 1..(Len(Script[op]) + 1) : call[a].todo = Left(op, i)
  BY DEF Typed, OnScript
<1>3. PICK i \in 1..(Len(Script[op]) + 1) : call[a].todo = Left(op, i)
  BY <1>2
<1>4. Len(Script[op]) \in Nat /\ i # Len(Script[op]) + 1
  BY <1>1, <1>3, Ahead, Lengths
<1>5. i \in 1..Len(Script[op])
  BY <1>4
<1>6. \E c \in [todo : Seq(Steps), mode : Modes] :
         /\ call' = [call EXCEPT ![a] = c]
         /\ \E o \in DOMAIN Script : \E j \in 1..(Len(Script[o]) + 1) :
               c.todo = Left(o, j)
  <2>1. CASE Advance(a)
    <3>1. /\ i + 1 \in 1..(Len(Script[op]) + 1)
          /\ call' = [call EXCEPT ![a] = [todo |-> Left(op, i + 1),
                                          mode |-> call[a].mode]]
      BY <1>3, <1>5, <2>1, Moves
    <3>2. Left(op, i + 1) \in Seq(Steps)
      BY <3>1, Ahead
    <3>3. call[a].mode \in Modes
      BY DEF Typed
    <3>4. [todo |-> Left(op, i + 1), mode |-> call[a].mode]
             \in [todo : Seq(Steps), mode : Modes]
      BY <3>2, <3>3
    <3> QED
      BY <3>1, <3>4
  <2>2. CASE Refuse(a)
    <3>1. call' = [call EXCEPT ![a] = [todo |-> Left("switch", 9),
                                       mode |-> call[a].mode]]
      BY <1>3, <1>5, <2>2, Moves
    <3>2. "switch" \in DOMAIN Script /\ 9 \in 1..(Len(Script["switch"]) + 1)
      BY Scripts, Lengths
    <3>3. Left("switch", 9) \in Seq(Steps) /\ call[a].mode \in Modes
      BY <3>2, Ahead DEF Typed
    <3>4. [todo |-> Left("switch", 9), mode |-> call[a].mode]
             \in [todo : Seq(Steps), mode : Modes]
      BY <3>3
    <3> QED
      BY <3>1, <3>2, <3>4
  <2>3. CASE Return(a)
    BY <2>3, NoCallTyped DEF Return
  <2> QED
    BY <1>1, <2>1, <2>2, <2>3
<1>7. /\ call' \in [Actors -> [todo : Seq(Steps), mode : Modes]]
      /\ \A b \in Actors : OnScript(b)'
  <2>1. call \in [Actors -> [todo : Seq(Steps), mode : Modes]]
        /\ \A b \in Actors : OnScript(b)
    BY DEF Typed
  <2>2. PICK c \in [todo : Seq(Steps), mode : Modes] :
           /\ call' = [call EXCEPT ![a] = c]
           /\ \E o \in DOMAIN Script : \E j \in 1..(Len(Script[o]) + 1) :
                 c.todo = Left(o, j)
    BY <1>6
  <2>3. call' \in [Actors -> [todo : Seq(Steps), mode : Modes]]
    BY <2>1, <2>2
  <2>4. ASSUME NEW b \in Actors PROVE OnScript(b)'
    <3>1. CASE b = a
      BY <2>1, <2>2, <3>1 DEF OnScript
    <3>2. CASE b # a
      BY <2>1, <2>2, <3>2 DEF OnScript
    <3> QED
      BY <3>1, <3>2
  <2> QED
    BY <2>3, <2>4
<1>8. /\ cmdq' \in Seq([from : Users, mode : Modes])
      /\ sender' \in [Users -> {"out", "pushed", "waiting"}]
      /\ (~Idle("cmd"))' => cmdq' # <<>>
  <2>1. /\ cmdq \in Seq([from : Users, mode : Modes])
        /\ sender \in [Users -> {"out", "pushed", "waiting"}]
        /\ ~Idle("cmd") => cmdq # <<>>
        /\ "cmd" \in Actors /\ call \in [Actors -> [todo : Seq(Steps), mode : Modes]]
    BY DEF Typed, Actors
  <2>2. ~Idle(a)
    BY <1>1 DEF Idle, NoCall
  <2>3. CASE a = "cmd" /\ Return(a)
    <3>1. cmdq # <<>>
      BY <2>1, <2>2, <2>3
    <3>2. Tail(cmdq) \in Seq([from : Users, mode : Modes])
      BY <2>1, <3>1
    <3>3. Idle("cmd")'
      BY <2>1, <2>3 DEF Return, Idle
    <3>4. sender' \in [Users -> {"out", "pushed", "waiting"}]
      BY <2>1, <2>3 DEF Return
    <3> QED
      BY <2>3, <3>2, <3>3, <3>4 DEF Return
  <2>4. CASE ~(a = "cmd" /\ Return(a))
    <3>1. UNCHANGED <<cmdq, sender>>
      BY <1>1, <2>4 DEF Advance, Return, Refuse
    <3>2. a # "cmd" => call'["cmd"] = call["cmd"]
      BY <1>6, <2>1
    <3> QED
      BY <2>1, <2>2, <3>1, <3>2 DEF Idle
  <2> QED
    BY <2>3, <2>4
<1> QED
  BY <1>7, <1>8 DEF CallsTyped

\* The rest of Typed.
DataTyped ==
    /\ state \in CoreStates /\ mode \in Modes
    /\ apply \in BOOLEAN
    /\ rst \in Seq([mode : Modes, late : BOOLEAN])
    /\ params \in Modes \cup {"none"}
    /\ ana \in [st : CoreStates, mode : Modes]
    /\ luma \in [st : CoreStates, mode : Modes]
    /\ hw \in [st : CoreStates \cup {"paused"}, mode : Modes, on : BOOLEAN]
    /\ cmd \in BOOLEAN

LEMMA TypedParts == Typed <=> DataTyped /\ CallsTyped
BY DEF Typed, DataTyped, CallsTyped

LEMMA DataTypedNext ==
    ASSUME ManagerAssumption, Typed, NEW a \in Actors, Lifecycle(a)
    PROVE  DataTyped'
<1>1. DataTyped /\ call[a].mode \in Modes
  BY TypedParts DEF Typed, DataTyped
<1>2. {"inited", "prepared", "started", "stoped", "invalid"} = CoreStates
  BY DEF CoreStates
<1> USE DEF manager, applying, parts
<1>3. CASE ApplyStart(a) \/ ApplyStop(a) \/ ApplyInit(a) \/ Reapply(a)
  <2>1. apply' \in BOOLEAN
    BY <1>1, <1>3 DEF ApplyStart, ApplyStop, ApplyInit, Reapply, DataTyped
  <2>2. rst' \in Seq([mode : Modes, late : BOOLEAN])
    <3>1. rst' = rst \/ rst' = <<>>
      BY <1>3 DEF ApplyStart, ApplyStop, ApplyInit, Reapply
    <3>2. <<>> \in Seq([mode : Modes, late : BOOLEAN])
      BY EmptySeq
    <3>3. rst \in Seq([mode : Modes, late : BOOLEAN])
      BY <1>1 DEF DataTyped
    <3> QED
      BY <3>1, <3>2, <3>3
  <2>3. params' \in Modes \cup {"none"}
    BY <1>1, <1>3 DEF ApplyStart, ApplyStop, ApplyInit, Reapply, DataTyped
  <2>4. UNCHANGED <<state, mode, ana, luma, hw, cmd>>
    BY <1>3 DEF ApplyStart, ApplyStop, ApplyInit, Reapply
  <2> QED
    BY <1>1, <2>1, <2>2, <2>3, <2>4 DEF DataTyped
<1>4. CASE AnaPrepare(a) \/ AnaStart(a) \/ AnaStop(a) \/ AnaDeinit(a)
  <2>1. ana' \in [st : CoreStates, mode : Modes]
    BY <1>1, <1>2, <1>4
       DEF AnaPrepare, AnaStart, AnaStop, AnaDeinit, DataTyped
  <2> QED
    BY <1>1, <1>4, <2>1
       DEF AnaPrepare, AnaStart, AnaStop, AnaDeinit, DataTyped
<1>5. CASE LumaPrepare(a) \/ LumaStart(a) \/ LumaStop(a) \/ LumaDeinit(a)
  <2>1. luma' \in [st : CoreStates, mode : Modes]
    BY <1>1, <1>2, <1>5
       DEF LumaPrepare, LumaStart, LumaStop, LumaDeinit, DataTyped
  <2> QED
    BY <1>1, <1>5, <2>1
       DEF LumaPrepare, LumaStart, LumaStop, LumaDeinit, DataTyped
<1>6. CASE HwPrepare(a) \/ HwStart(a) \/ HwStop(a) \/ HwDeinit(a)
             \/ HwPause(a) \/ HwSwitch(a) \/ HwResume(a)
  <2>1. hw' \in [st : CoreStates \cup {"paused"}, mode : Modes, on : BOOLEAN]
    <3>1. hw \in [st : CoreStates \cup {"paused"}, mode : Modes, on : BOOLEAN]
      BY <1>1 DEF DataTyped
    <3>2. CASE HwPrepare(a)
      BY <1>1, <1>2, <3>1, <3>2 DEF HwPrepare
    <3>3. CASE HwStart(a) \/ HwDeinit(a) \/ HwSwitch(a)
      BY <1>1, <1>2, <3>1, <3>3 DEF HwStart, HwDeinit, HwSwitch
    <3>4. CASE HwStop(a) \/ HwPause(a) \/ HwResume(a)
      BY <1>2, <3>1, <3>4 DEF HwStop, HwPause, HwResume, HwSet
    <3> QED
      BY <1>6, <3>2, <3>3, <3>4
  <2> QED
    BY <1>1, <1>6, <2>1 DEF HwPrepare, HwStart, HwStop, HwDeinit, HwPause,
                            HwSwitch, HwResume, HwSet, DataTyped
<1>7. CASE CheckSwitch(a) \/ CmdStop(a) \/ Prepared(a) \/ Started(a)
             \/ Stoped(a) \/ Switched(a) \/ Gone(a)
  BY <1>1, <1>2, <1>7 DEF CheckSwitch, CmdStop, Prepared, Started, Stoped,
                          Switched, Gone, DataTyped
<1> QED
  BY <1>3, <1>4, <1>5, <1>6, <1>7 DEF Lifecycle

LEMMA InitTyped ==
    ASSUME ManagerAssumption, Init
    PROVE  Typed
<1>1. DataTyped
  <2>1. Normal \in Modes
    BY DEF ManagerAssumption
  <2>2. /\ ana \in [st : CoreStates, mode : Modes]
        /\ luma \in [st : CoreStates, mode : Modes]
    BY <2>1 DEF Init, CoreStates
  <2>3. hw \in [st : CoreStates \cup {"paused"}, mode : Modes, on : BOOLEAN]
    BY <2>1 DEF Init, CoreStates
  <2>4. /\ state \in CoreStates /\ mode \in Modes /\ apply \in BOOLEAN
        /\ params \in Modes \cup {"none"} /\ cmd \in BOOLEAN
    BY <2>1 DEF Init, CoreStates
  <2>5. rst \in Seq([mode : Modes, late : BOOLEAN])
    BY DEF Init
  <2> QED
    BY <2>2, <2>3, <2>4, <2>5 DEF DataTyped
<1>2. CallsTyped
  <2>1. call = [b \in Actors |-> NoCall]
    BY DEF Init
  <2>2. call \in [Actors -> [todo : Seq(Steps), mode : Modes]]
    BY <2>1, NoCallTyped
  <2>3. \A b \in Actors : OnScript(b)
    BY <2>1, NoCallTyped DEF OnScript
  <2>4. Idle("cmd")
    BY <2>1 DEF Idle, Actors
  <2> QED
    BY <2>2, <2>3, <2>4 DEF Init, CallsTyped
<1> QED
  BY <1>1, <1>2, TypedParts

\* A new call is before the first step of its script.
LEMMA First ==
    ASSUME NEW op \in DOMAIN Script, NEW m \in Modes
    PROVE  /\ Script[op] = Left(op, 1)
           /\ 1 \in 1..Len(Script[op]) /\ 1 \in 1..(Len(Script[op]) + 1)
           /\ [todo |-> Script[op], mode |-> m]
                 \in [todo : Seq(Steps), mode : Modes]
<1>1. Script[op] \in Seq(Steps)
  BY Lengths
<1>2. SubSeq(Script[op], 1, Len(Script[op])) = Script[op]
  BY <1>1, SubSeqFull
<1>3. 1 \in 1..Len(Script[op]) /\ 1 \in 1..(Len(Script[op]) + 1)
  <2>1. op \in {"prepare", "start", "stop", "deinit", "switch"}
    BY Scripts
  <2>2. PICK n \in {5, 6, 13} : Len(Script[op]) = n
    BY <2>1, Lengths
  <2>3. 1 \in 1..n /\ 1 \in 1..(n + 1)
    OBVIOUS
  <2> QED
    BY <2>2, <2>3
<1> QED
  BY <1>1, <1>2, <1>3 DEF Left

LEMMA NewCallTyped ==
    ASSUME Typed, NEW a \in Actors, NEW op \in DOMAIN Script, NEW m \in Modes,
           call' = [call EXCEPT ![a] = [todo |-> Script[op], mode |-> m]],
           UNCHANGED <<cmdq, sender>>, a = "cmd" => cmdq # <<>>
    PROVE  CallsTyped'
<1>1. CallsTyped
  BY TypedParts
<1>2. call' \in [Actors -> [todo : Seq(Steps), mode : Modes]]
  BY <1>1, First DEF CallsTyped
<1>3. ASSUME NEW b \in Actors PROVE OnScript(b)'
  <2>1. CASE b = a
    <3>1. call'[b].todo = Left(op, 1)
      BY <1>1, <2>1, First DEF CallsTyped
    <3> QED
      BY <3>1, First DEF OnScript
  <2>2. CASE b # a
    BY <1>1, <2>2 DEF CallsTyped, OnScript
  <2> QED
    BY <2>1, <2>2
<1>4. (~Idle("cmd"))' => cmdq' # <<>>
  BY <1>1 DEF CallsTyped, Idle, Actors
<1> QED
  BY <1>1, <1>2, <1>3, <1>4 DEF CallsTyped

LEMMA TypedNext ==
    ASSUME ManagerAssumption, Typed, [Next]_vars
    PROVE  Typed'
<1>1. DataTyped /\ CallsTyped
  BY TypedParts
<1> USE DEF manager, applying, parts, commands
<1>2. CASE \E a \in Actors : Lifecycle(a)
  <2>1. CallsTyped' /\ DataTyped'
    BY <1>2, CallTypedNext, DataTypedNext
  <2> QED
    BY <2>1 DEF Typed, DataTyped, CallsTyped
<1>3. CASE \E op \in DOMAIN Script : \E m \in Modes : Begin(op, m)
  <2>1. PICK op \in DOMAIN Script, m \in Modes : Begin(op, m)
    BY <1>3
  <2>2. Main \in Actors /\ Main # "cmd"
    BY DEF ManagerAssumption, Actors
  <2>3. CallsTyped'
    BY <2>1, <2>2, NewCallTyped DEF Begin
  <2>4. DataTyped'
    BY <1>1, <2>1 DEF Begin, DataTyped
  <2> QED
    BY <2>3, <2>4 DEF Typed, DataTyped, CallsTyped
<1>4. CASE TakeCommand
  <2>1. cmdq # <<>> /\ Head(cmdq).mode \in Modes
    <3>1. cmdq # <<>> /\ cmdq \in Seq([from : Users, mode : Modes])
      BY <1>1, <1>4 DEF TakeCommand, CallsTyped
    <3>2. Head(cmdq) \in [from : Users, mode : Modes]
      BY <3>1, HeadTailProperties
    <3> QED
      BY <3>1, <3>2
  <2>2. "cmd" \in Actors /\ "switch" \in DOMAIN Script
    BY Scripts DEF Actors
  <2>3. CallsTyped'
    BY <1>4, <2>1, <2>2, NewCallTyped DEF TakeCommand
  <2>4. DataTyped'
    BY <1>1, <1>4 DEF TakeCommand, DataTyped
  <2> QED
    BY <2>3, <2>4 DEF Typed, DataTyped, CallsTyped
<1>5. CASE \E u \in Users : SwitchCall(u)
  <2>1. PICK u \in Users, m \in Modes :
           /\ cmdq' = Append(cmdq, [from |-> u, mode |-> m])
           /\ sender' = [sender EXCEPT ![u] = "pushed"]
           /\ UNCHANGED <<manager, applying, parts, cmd, call>>
    BY <1>5 DEF SwitchCall
  <2>2. cmdq' \in Seq([from : Users, mode : Modes]) /\ cmdq' # <<>>
    BY <1>1, <2>1, SMTT(30) DEF CallsTyped
  <2>3. CallsTyped'
    BY <1>1, <2>1, <2>2 DEF CallsTyped, OnScript, Idle
  <2>4. DataTyped'
    BY <1>1, <2>1 DEF DataTyped
  <2> QED
    BY <2>3, <2>4 DEF Typed, DataTyped, CallsTyped
<1>6. CASE \E u \in Users : SenderWaits(u)
  <2>1. CallsTyped'
    BY <1>1, <1>6 DEF SenderWaits, CallsTyped, OnScript, Idle
  <2>2. DataTyped'
    BY <1>1, <1>6 DEF SenderWaits, DataTyped
  <2> QED
    BY <2>1, <2>2 DEF Typed, DataTyped, CallsTyped
<1>7. CASE Analyze
  <2>1. rst' \in Seq([mode : Modes, late : BOOLEAN])
    BY <1>1, <1>7 DEF Analyze, DataTyped
  <2> QED
    BY <1>1, <1>7, <2>1
       DEF Analyze, Typed, DataTyped, CallsTyped, OnScript, Idle
<1>8. CASE ApplyResult
  <2>1. rst \in Seq([mode : Modes, late : BOOLEAN]) /\ rst # <<>>
    BY <1>1, <1>8 DEF ApplyResult, DataTyped
  <2>2. /\ Tail(rst) \in Seq([mode : Modes, late : BOOLEAN])
        /\ Head(rst).mode \in Modes
    <3>1. /\ Tail(rst) \in Seq([mode : Modes, late : BOOLEAN])
          /\ Head(rst) \in [mode : Modes, late : BOOLEAN]
      BY <2>1, HeadTailProperties
    <3> QED
      BY <3>1
  <2> QED
    BY <1>1, <1>8, <2>2
       DEF ApplyResult, Typed, DataTyped, CallsTyped, OnScript, Idle
<1>9. CASE UNCHANGED vars
  BY <1>1, <1>9 DEF vars, Typed, DataTyped, CallsTyped, OnScript, Idle
<1>10. PrepareCall \/ StartCall \/ StopCall \/ DeinitCall =>
           \E op \in DOMAIN Script : \E m \in Modes : Begin(op, m)
  BY Scripts DEF PrepareCall, StartCall, StopCall, DeinitCall, ManagerAssumption
<1> QED
  BY <1>2, <1>3, <1>4, <1>5, <1>6, <1>7, <1>8, <1>9, <1>10 DEF Next

\* Every variable keeps its type; what a call still has to do is always the
\* end of one of the five scripts (RkAiqManager's calls, their error returns
\* and the label restart of swWorkingModeDyn).
THEOREM TypeCorrect == Spec => []TypeOK
<1>1. Init => Typed
  BY InitTyped, ManagerAssumption
<1>2. Typed /\ [Next]_vars => Typed'
  BY TypedNext, ManagerAssumption
<1> QED
  BY <1>1, <1>2, TypedIsTypeOK, PTL DEF Spec

-----------------------------------------------------------------------------
(* Calls that are serialized. *)

LEMMA Single ==
    ASSUME ManagerAssumption, Alone, NEW a \in Actors, ~Idle(a)
    PROVE  /\ a \in {Main, "cmd"}
           /\ \A b \in Actors : b # a => Idle(b)
           /\ a = Main => \A u \in Users : sender[u] = "out"
           /\ a = "cmd" => \E u \in Users : sender[u] = "waiting"
BY DEF Alone, Actors, ManagerAssumption

LEMMA Position ==
    ASSUME Typed, InCall, NEW a \in Actors, call[a].todo # <<>>
    PROVE  \E op \in DOMAIN Script : \E i \in 1..Len(Script[op]) :
              /\ call[a].todo = Left(op, i)
              /\ op = "switch" <=> a = "cmd"
              /\ Working(op, i, call[a].mode)
              /\ \A x : At(a, x) <=> x = Script[op][i]
<1>1. ~Idle(a)
  BY DEF Idle, NoCall
<1>2. PICK op \in DOMAIN Script :
           \E i \in 1..Len(Script[op]) :
              /\ call[a].todo = Left(op, i)
              /\ op = "switch" <=> a = "cmd"
              /\ Working(op, i, call[a].mode)
  BY <1>1 DEF InCall, Busy
<1>3. PICK i \in 1..Len(Script[op]) :
              /\ call[a].todo = Left(op, i)
              /\ op = "switch" <=> a = "cmd"
              /\ Working(op, i, call[a].mode)
  BY <1>2
<1>4. Len(Script[op]) \in Nat
  BY Lengths
<1>5. i \in 1..(Len(Script[op]) + 1) /\ i <= Len(Script[op])
  BY <1>4
<1>6. Head(Left(op, i)) = Script[op][i]
  BY <1>5, Ahead
<1>7. \A x : At(a, x) <=> x = Script[op][i]
  BY <1>3, <1>6 DEF At
<1> QED
  BY <1>3, <1>7

-----------------------------------------------------------------------------
(* Each step of a call leaves the components as the next one finds them. *)

Step(a, op, i) == \A x : At(a, x) <=> x = Script[op][i]

\* The call goes on, is over, or resumes after a refused switch.
Goes(a, op, i, m) ==
    \/ Advance(a) /\ i < Len(Script[op]) /\ Working(op, i + 1, m)'
    \/ Return(a) /\ Resting'
    \/ Refuse(a) /\ op = "switch" /\ Working("switch", 9, m)'

\* The apply thread.
LEMMA ApplySteps ==
    ASSUME DataTyped, NEW a \in Actors, NEW op \in DOMAIN Script,
           NEW i \in 1..Len(Script[op]), Step(a, op, i),
           NEW m, m = call[a].mode, Working(op, i, m),
           ApplyStart(a) \/ ApplyStop(a) \/ ApplyInit(a) \/
              Reapply(a)
    PROVE  Goes(a, op, i, m)
<1>1. CASE ApplyStart(a)
  <2>1. (op = "start" /\ i = 2) \/ (op = "switch" /\ i = 10)
    <3>1. Script[op][i] = "applyStart"
      BY <1>1 DEF Step, ApplyStart
    <3> QED
      BY <3>1, Places
  <2>2. Advance(a) /\ apply' /\ UNCHANGED <<state, ana, luma, hw>>
    BY <1>1 DEF ApplyStart, manager, parts
  <2>3. CASE op = "start" /\ i = 2
    BY <2>2, <2>3, Lengths
       DEF DataTyped, Working, OnStart, Goes, Resting, AllDown,
           Alive, Ready, Startable, Together
  <2>4. CASE op = "switch" /\ i = 10
    BY <2>2, <2>4, Lengths
       DEF DataTyped, Working, OnSwitch, Goes, Resting, AllDown,
           Alive, Ready, Startable, Together
  <2> QED
    BY <2>1, <2>3, <2>4
<1>2. CASE ApplyStop(a)
  <2>1. (op = "stop" /\ i = 1) \/ (op = "switch" /\ i = 2)
    <3>1. Script[op][i] = "applyStop"
      BY <1>2 DEF Step, ApplyStop
    <3> QED
      BY <3>1, Places
  <2>2. Advance(a) /\ ~apply' /\ UNCHANGED <<state, ana, luma, hw>>
    BY <1>2 DEF ApplyStop, manager, parts
  <2>3. CASE op = "stop" /\ i = 1
    BY <2>2, <2>3, Lengths
       DEF DataTyped, Working, OnStop, Goes, Resting, AllDown,
           Alive, Ready, Startable, Together
  <2>4. CASE op = "switch" /\ i = 2
    BY <2>2, <2>4, Lengths
       DEF DataTyped, Working, OnSwitch, Goes, Resting, AllDown,
           Alive, Ready, Startable, Together
  <2> QED
    BY <2>1, <2>3, <2>4
<1>3. CASE ApplyInit(a)
  <2>1. (op = "prepare" /\ i = 4) \/ (op = "switch" /\ i = 8)
    <3>1. Script[op][i] = "apply"
      BY <1>3 DEF Step, ApplyInit
    <3> QED
      BY <3>1, Places
  <2>2. /\ Advance(a) \/ Return(a)
        /\ UNCHANGED <<state, apply, ana, luma, hw>>
    BY <1>3 DEF ApplyInit, Outcome, Checked, manager, parts
  <2>3. CASE op = "prepare" /\ i = 4
    BY <2>2, <2>3, Lengths
       DEF DataTyped, Working, OnPrepare, Goes, Resting, AllDown,
           Alive, Ready, Startable, Together
  <2>4. CASE op = "switch" /\ i = 8
    BY <2>2, <2>4, Lengths
       DEF DataTyped, Working, OnSwitch, Goes, Resting, AllDown,
           Alive, Ready, Startable, Together
  <2> QED
    BY <2>1, <2>3, <2>4
<1>4. CASE Reapply(a)
  <2>1. op = "start" /\ i = 1
    <3>1. Script[op][i] = "reapply"
      BY <1>4 DEF Step, Reapply
    <3> QED
      BY <3>1, Places
  <2>2. Advance(a) /\ UNCHANGED <<state, apply, ana, luma, hw>>
    BY <1>4 DEF Reapply, manager, parts
  <2> QED
    BY <2>1, <2>2, Lengths
       DEF DataTyped, Working, OnStart, Goes, Resting, AllDown,
           Alive, Ready, Startable, Together
<1> QED
  BY <1>1, <1>2, <1>3, <1>4

\* The analyzer.
LEMMA AnaSteps ==
    ASSUME DataTyped, NEW a \in Actors, NEW op \in DOMAIN Script,
           NEW i \in 1..Len(Script[op]), Step(a, op, i),
           NEW m, m = call[a].mode, Working(op, i, m),
           AnaStart(a) \/ AnaStop(a) \/ AnaPrepare(a) \/
              AnaDeinit(a)
    PROVE  Goes(a, op, i, m)
<1>1. CASE AnaStart(a)
  <2>1. (op = "start" /\ i = 3) \/ (op = "switch" /\ i = 11)
    <3>1. Script[op][i] = "anaStart"
      BY <1>1 DEF Step, AnaStart
    <3> QED
      BY <3>1, Places
  <2>2. \/ /\ Advance(a)
           /\ ana'.st = "started" /\ ana'.mode = ana.mode
           /\ UNCHANGED <<state, apply, luma, hw>>
        \/ ana.st \notin {"prepared", "stoped"}
    BY <1>1 DEF DataTyped, AnaStart, Checked, manager, applying
  <2>3. CASE op = "start" /\ i = 3
    <3>1. OnStart(3)
      BY <2>3 DEF Working
    <3>2. ana.st \in {"prepared", "stoped"}
      BY <3>1 DEF OnStart
    <3>3. Advance(a) /\ ana'.st = "started" /\ ana'.mode = ana.mode
          /\ UNCHANGED <<state, apply, luma, hw>>
      BY <2>2, <3>2
    <3>4. OnStart(4)'
      BY <3>1, <3>3 DEF OnStart, Together
    <3> QED
      BY <2>3, <3>3, <3>4, Lengths DEF Goes, Working
  <2>4. CASE op = "switch" /\ i = 11
    <3>1. OnSwitch(11, m)
      BY <2>4 DEF Working
    <3>2. ana.st \in {"prepared", "stoped"}
      BY <3>1 DEF OnSwitch, Startable
    <3>3. Advance(a) /\ ana'.st = "started" /\ ana'.mode = ana.mode
          /\ UNCHANGED <<state, apply, luma, hw>>
      BY <2>2, <3>2
    <3>4. OnSwitch(12, m)'
      BY <3>1, <3>3 DEF OnSwitch, Startable, Together
    <3> QED
      BY <2>4, <3>3, <3>4, Lengths DEF Goes, Working
  <2> QED
    BY <2>1, <2>3, <2>4
<1>2. CASE AnaStop(a)
  <2>1. (op = "stop" /\ i = 2) \/ (op = "switch" /\ i = 3)
    <3>1. Script[op][i] = "anaStop"
      BY <1>2 DEF Step, AnaStop
    <3> QED
      BY <3>1, Places
  <2>2. /\ Advance(a) /\ UNCHANGED <<state, apply, luma, hw>>
        /\ ana'.mode = ana.mode
        /\ ana'.st = IF ana.st = "started" THEN "stoped" ELSE ana.st
    BY <1>2 DEF DataTyped, AnaStop, manager, applying
  <2>3. CASE op = "stop" /\ i = 2
    BY <2>2, <2>3, Lengths
       DEF DataTyped, Working, OnStop, Goes, Resting, AllDown,
           Alive, Ready, Startable, Together
  <2>4. CASE op = "switch" /\ i = 3
    BY <2>2, <2>4, Lengths
       DEF DataTyped, Working, OnSwitch, Goes, Resting, AllDown,
           Alive, Ready, Startable, Together
  <2> QED
    BY <2>1, <2>3, <2>4
<1>3. CASE AnaPrepare(a)
  <2>1. (op = "prepare" /\ i = 3) \/ (op = "switch" /\ i = 7)
    <3>1. Script[op][i] = "anaPrepare"
      BY <1>3 DEF Step, AnaPrepare
    <3> QED
      BY <3>1, Places
  <2>2. /\ UNCHANGED <<state, apply, luma, hw>>
        /\ ana.st \notin {"started", "invalid"} =>
              /\ ana'.mode = m
              /\ \/ Advance(a) /\ ana'.st = "prepared"
                 \/ Return(a) /\ ana'.st = ana.st
    BY <1>3 DEF DataTyped, AnaPrepare, Checked, manager, applying
  <2>3. CASE op = "prepare" /\ i = 3
    BY <2>2, <2>3, Lengths
       DEF DataTyped, Working, OnPrepare, Goes, Resting, AllDown,
           Alive, Ready, Startable, Together
  <2>4. CASE op = "switch" /\ i = 7
    BY <2>2, <2>4, Lengths
       DEF DataTyped, Working, OnSwitch, Goes, Resting, AllDown,
           Alive, Ready, Startable, Together
  <2> QED
    BY <2>1, <2>3, <2>4
<1>4. CASE AnaDeinit(a)
  <2>1. op = "deinit" /\ i = 2
    <3>1. Script[op][i] = "anaDeinit"
      BY <1>4 DEF Step, AnaDeinit
    <3> QED
      BY <3>1, Places
  <2>2. \/ /\ Advance(a)
           /\ ana'.st = "invalid" /\ ana'.mode = ana.mode
           /\ UNCHANGED <<state, apply, luma, hw>>
        \/ ana.st = "started"
    BY <1>4 DEF DataTyped, AnaDeinit, Checked, manager, applying
  <2> QED
    BY <2>1, <2>2, Lengths
       DEF DataTyped, Working, OnDeinit, Goes, Resting, AllDown,
           Alive, Ready, Startable, Together
<1> QED
  BY <1>1, <1>2, <1>3, <1>4

\* The luma analyzer.
LEMMA LumaSteps ==
    ASSUME DataTyped, NEW a \in Actors, NEW op \in DOMAIN Script,
           NEW i \in 1..Len(Script[op]), Step(a, op, i),
           NEW m, m = call[a].mode, Working(op, i, m),
           LumaStart(a) \/ LumaStop(a) \/ LumaPrepare(a) \/
              LumaDeinit(a)
    PROVE  Goes(a, op, i, m)
<1>1. CASE LumaStart(a)
  <2>1. (op = "start" /\ i = 4) \/ (op = "switch" /\ i = 12)
    <3>1. Script[op][i] = "lumaStart"
      BY <1>1 DEF Step, LumaStart
    <3> QED
      BY <3>1, Places
  <2>2. \/ Advance(a) /\ luma'.st = "started" /\ UNCHANGED <<state, apply, ana, hw>>
        \/ luma.st \in {"started", "invalid"}
    BY <1>1 DEF DataTyped, CoreStates, LumaStart, Checked, manager, applying
  <2>3. CASE op = "start" /\ i = 4
    <3>1. OnStart(4)
      BY <2>3 DEF Working
    <3>2. luma.st \notin {"started", "invalid"}
      BY <3>1 DEF OnStart
    <3>3. Advance(a) /\ luma'.st = "started" /\ UNCHANGED <<state, apply, ana, hw>>
      BY <2>2, <3>2
    <3>4. OnStart(5)'
      BY <3>1, <3>3 DEF OnStart, Together
    <3> QED
      BY <2>3, <3>3, <3>4, Lengths DEF Goes, Working
  <2>4. CASE op = "switch" /\ i = 12
    <3>1. OnSwitch(12, m) /\ luma.st \in CoreStates
      BY <2>4 DEF Working, DataTyped
    <3>2. luma.st \notin {"started", "invalid"}
      BY <3>1 DEF OnSwitch, Startable
    <3>3. Advance(a) /\ luma'.st = "started" /\ UNCHANGED <<state, apply, ana, hw>>
      BY <2>2, <3>2
    <3>4. OnSwitch(13, m)'
      BY <3>1, <3>3 DEF OnSwitch, Startable, Together
    <3> QED
      BY <2>4, <3>3, <3>4, Lengths DEF Goes, Working
  <2> QED
    BY <2>1, <2>3, <2>4
<1>2. CASE LumaStop(a)
  <2>1. (op = "stop" /\ i = 3) \/ (op = "switch" /\ i = 4)
    <3>1. Script[op][i] = "lumaStop"
      BY <1>2 DEF Step, LumaStop
    <3> QED
      BY <3>1, Places
  <2>2. /\ Advance(a) /\ UNCHANGED <<state, apply, ana, hw>>
        /\ luma'.st = IF luma.st = "started" THEN "stoped" ELSE luma.st
    BY <1>2 DEF DataTyped, LumaStop, manager, applying
  <2>3. CASE op = "stop" /\ i = 3
    BY <2>2, <2>3, Lengths
       DEF DataTyped, Working, OnStop, Goes, Resting, AllDown,
           Alive, Ready, Startable, Together
  <2>4. CASE op = "switch" /\ i = 4
    BY <2>2, <2>4, Lengths
       DEF DataTyped, Working, OnSwitch, Goes, Resting, AllDown,
           Alive, Ready, Startable, Together
  <2> QED
    BY <2>1, <2>3, <2>4
<1>3. CASE LumaPrepare(a)
  <2>1. op = "prepare" /\ i = 2
    <3>1. Script[op][i] = "lumaPrepare"
      BY <1>3 DEF Step, LumaPrepare
    <3> QED
      BY <3>1, Places
  <2>2. /\ Advance(a) /\ UNCHANGED <<state, apply, ana, hw>>
        /\ luma'.st = luma.st
    BY <1>3 DEF DataTyped, LumaPrepare, manager, applying
  <2> QED
    BY <2>1, <2>2, Lengths
       DEF DataTyped, Working, OnPrepare, Goes, Resting, AllDown,
           Alive, Ready, Startable, Together
<1>4. CASE LumaDeinit(a)
  <2>1. op = "deinit" /\ i = 3
    <3>1. Script[op][i] = "lumaDeinit"
      BY <1>4 DEF Step, LumaDeinit
    <3> QED
      BY <3>1, Places
  <2>2. \/ Advance(a) /\ luma'.st = "invalid" /\ UNCHANGED <<state, apply, ana, hw>>
        \/ luma.st = "started"
    BY <1>4 DEF DataTyped, LumaDeinit, Checked, manager, applying
  <2> QED
    BY <2>1, <2>2, Lengths
       DEF DataTyped, Working, OnDeinit, Goes, Resting, AllDown,
           Alive, Ready, Startable, Together
<1> QED
  BY <1>1, <1>2, <1>3, <1>4

\* The hardware; only its start may not fail.
LEMMA HwSteps ==
    ASSUME DataTyped, NEW a \in Actors, NEW op \in DOMAIN Script,
           NEW i \in 1..Len(Script[op]), Step(a, op, i),
           NEW m, m = call[a].mode, Working(op, i, m),
           "hwStart" \notin Faults,
           HwPrepare(a) \/ HwStart(a) \/ HwStop(a) \/
              HwPause(a) \/ HwSwitch(a) \/ HwResume(a) \/
              HwDeinit(a)
    PROVE  Goes(a, op, i, m)
<1>1. CASE HwPrepare(a)
  <2>1. op = "prepare" /\ i = 1
    <3>1. Script[op][i] = "hwPrepare"
      BY <1>1 DEF Step, HwPrepare
    <3> QED
      BY <3>1, Places
  <2>2. /\ UNCHANGED <<state, apply, ana, luma>>
        /\ hw'.mode = m /\ hw'.on = hw.on
        /\ \/ Advance(a) /\ hw'.st = "prepared"
           \/ /\ Return(a) /\ hw'.st \in {"prepared", hw.st}
              /\ "hwPrepare" \in Faults
    BY <1>1 DEF DataTyped, HwPrepare, Results, Checked, manager, applying
  <2>3. OnPrepare(1, m)
    BY <2>1 DEF Working
  <2>4. CASE Advance(a) /\ hw'.st = "prepared"
    <3>1. OnPrepare(2, m)'
      BY <2>2, <2>3, <2>4 DEF OnPrepare, AllDown, Alive, Ready, Together
    <3> QED
      BY <2>1, <2>4, <3>1, Lengths DEF Goes, Working
  <2>5. CASE /\ Return(a) /\ hw'.st \in {"prepared", hw.st}
             /\ "hwPrepare" \in Faults
    <3>1. AllDown' /\ Alive'
      BY <2>2, <2>3 DEF OnPrepare, AllDown, Alive
    <3>2. state' \in {"prepared", "stoped"} => Ready'
      BY <2>2, <2>3, <2>5 DEF OnPrepare, Ready
    <3> QED
      BY <2>2, <2>3, <2>5, <3>1, <3>2 DEF OnPrepare, Goes, Resting, Together
  <2> QED
    BY <2>2, <2>4, <2>5
<1>2. CASE HwStart(a)
  <2>1. op = "start" /\ i = 5
    <3>1. Script[op][i] = "hwStart"
      BY <1>2 DEF Step, HwStart
    <3> QED
      BY <3>1, Places
  <2>2. \/ /\ Advance(a) /\ UNCHANGED <<state, apply, ana, luma>>
           /\ hw'.st = "started" /\ hw'.mode = hw.mode /\ hw'.on
        \/ hw.st \notin {"prepared", "stoped"}
    BY <1>2 DEF DataTyped, HwStart, Outcome, Results, Checked, manager, applying
  <2>3. OnStart(5)
    BY <2>1 DEF Working
  <2>4. hw.st \in {"prepared", "stoped"}
    BY <2>3 DEF OnStart
  <2>5. /\ Advance(a) /\ UNCHANGED <<state, apply, ana, luma>>
        /\ hw'.st = "started" /\ hw'.mode = hw.mode /\ hw'.on
    BY <2>2, <2>4
  <2>6. OnStart(6)'
    BY <2>3, <2>5 DEF OnStart, Together
  <2> QED
    BY <2>1, <2>5, <2>6, Lengths DEF Goes, Working
<1>3. CASE HwStop(a)
  <2>1. op = "stop" /\ i = 4
    <3>1. Script[op][i] = "hwStop"
      BY <1>3 DEF Step, HwStop, HwSet
    <3> QED
      BY <3>1, Places
  <2>2. /\ Advance(a) \/ Return(a)
        /\ hw'.st = "stoped" /\ hw'.mode = hw.mode /\ hw'.on = FALSE
        /\ UNCHANGED <<state, apply, ana, luma>>
    BY <1>3 DEF DataTyped, HwStop, HwSet, Outcome, Checked, manager, applying
  <2> QED
    BY <2>1, <2>2, Lengths
       DEF DataTyped, Working, OnStop, Goes, Resting, AllDown,
           Alive, Ready, Startable, Together
<1>4. CASE HwPause(a)
  <2>1. op = "switch" /\ i = 5
    <3>1. Script[op][i] = "hwPause"
      BY <1>4 DEF Step, HwPause, HwSet
    <3> QED
      BY <3>1, Places
  <2>2. /\ Advance(a) \/ Return(a)
        /\ hw'.st = "paused" /\ hw'.mode = hw.mode /\ hw'.on = FALSE
        /\ UNCHANGED <<state, apply, ana, luma>>
    BY <1>4 DEF DataTyped, HwPause, HwSet, Outcome, Checked, manager, applying
  <2> QED
    BY <2>1, <2>2, Lengths
       DEF DataTyped, Working, OnSwitch, Goes, Resting, AllDown,
           Alive, Ready, Startable, Together
<1>5. CASE HwSwitch(a)
  <2>1. op = "switch" /\ i = 6
    <3>1. Script[op][i] = "hwSwitch"
      BY <1>5 DEF Step, HwSwitch
    <3> QED
      BY <3>1, Places
  <2>2. /\ UNCHANGED <<state, apply, ana, luma>>
        /\ hw'.st = hw.st /\ hw'.on = hw.on
        /\ \/ Advance(a) /\ hw'.mode = m
           \/ Refuse(a) /\ hw'.mode = hw.mode
    BY <1>5 DEF DataTyped, HwSwitch, Refuse, manager, applying
  <2> QED
    BY <2>1, <2>2, Lengths
       DEF DataTyped, Working, OnSwitch, Goes, Resting, AllDown,
           Alive, Ready, Startable, Together
<1>6. CASE HwResume(a)
  <2>1. op = "switch" /\ i = 9
    <3>1. Script[op][i] = "hwResume"
      BY <1>6 DEF Step, HwResume, HwSet
    <3> QED
      BY <3>1, Places
  <2>2. /\ Advance(a) \/ Return(a)
        /\ hw'.st = "started" /\ hw'.mode = hw.mode /\ hw'.on = TRUE
        /\ UNCHANGED <<state, apply, ana, luma>>
    BY <1>6 DEF DataTyped, HwResume, HwSet, Outcome, Checked, manager, applying
  <2> QED
    BY <2>1, <2>2, Lengths
       DEF DataTyped, Working, OnSwitch, Goes, Resting, AllDown,
           Alive, Ready, Startable, Together
<1>7. CASE HwDeinit(a)
  <2>1. op = "deinit" /\ i = 4
    <3>1. Script[op][i] = "hwDeinit"
      BY <1>7 DEF Step, HwDeinit
    <3> QED
      BY <3>1, Places
  <2>2. Advance(a) /\ hw'.on = hw.on /\ hw'.mode = hw.mode /\ UNCHANGED <<state, apply, ana, luma>>
    BY <1>7 DEF DataTyped, HwDeinit, manager, applying
  <2> QED
    BY <2>1, <2>2, Lengths
       DEF DataTyped, Working, OnDeinit, Goes, Resting, AllDown,
           Alive, Ready, Startable, Together
<1> QED
  BY <1>1, <1>2, <1>3, <1>4, <1>5, <1>6, <1>7

\* The check of a switch, and what calls end with.
LEMMA LastSteps ==
    ASSUME DataTyped, NEW a \in Actors, NEW op \in DOMAIN Script,
           NEW i \in 1..Len(Script[op]), Step(a, op, i),
           NEW m, m = call[a].mode, Working(op, i, m),
           CheckSwitch(a) \/ Prepared(a) \/ Started(a) \/
              Stoped(a) \/ Switched(a) \/ CmdStop(a) \/
              Gone(a)
    PROVE  Goes(a, op, i, m)
<1>1. CASE CheckSwitch(a)
  <2>1. op = "switch" /\ i = 1
    <3>1. Script[op][i] = "check"
      BY <1>1 DEF Step, CheckSwitch
    <3> QED
      BY <3>1, Places
  <2>2. (Advance(a) \/ Return(a)) /\ UNCHANGED <<state, apply, ana, luma, hw>>
    BY <1>1 DEF CheckSwitch, Checked, applying, parts, manager
  <2> QED
    BY <2>1, <2>2, Lengths
       DEF DataTyped, Working, OnSwitch, Goes, Resting, AllDown,
           Alive, Ready, Startable, Together
<1>2. CASE Prepared(a)
  <2>1. op = "prepare" /\ i = 5
    <3>1. Script[op][i] = "prepared"
      BY <1>2 DEF Step, Prepared
    <3> QED
      BY <3>1, Places
  <2>2. Return(a) /\ state' = "prepared" /\ UNCHANGED <<apply, ana, luma, hw>>
    BY <1>2 DEF Prepared, applying, parts
  <2> QED
    BY <2>1, <2>2, Lengths
       DEF DataTyped, Working, OnPrepare, Goes, Resting, AllDown,
           Alive, Ready, Startable, Together
<1>3. CASE Started(a)
  <2>1. op = "start" /\ i = 6
    <3>1. Script[op][i] = "started"
      BY <1>3 DEF Step, Started
    <3> QED
      BY <3>1, Places
  <2>2. Return(a) /\ state' = "started" /\ UNCHANGED <<apply, ana, luma, hw>>
    BY <1>3 DEF Started, applying, parts
  <2> QED
    BY <2>1, <2>2, Lengths
       DEF DataTyped, Working, OnStart, Goes, Resting, AllDown,
           Alive, Ready, Startable, Together
<1>4. CASE Stoped(a)
  <2>1. op = "stop" /\ i = 5
    <3>1. Script[op][i] = "stoped"
      BY <1>4 DEF Step, Stoped
    <3> QED
      BY <3>1, Places
  <2>2. Return(a) /\ state' = "stoped" /\ UNCHANGED <<apply, ana, luma, hw>>
    BY <1>4 DEF Stoped, applying, parts
  <2> QED
    BY <2>1, <2>2, Lengths
       DEF DataTyped, Working, OnStop, Goes, Resting, AllDown,
           Alive, Ready, Startable, Together
<1>5. CASE Switched(a)
  <2>1. op = "switch" /\ i = 13
    <3>1. Script[op][i] = "switched"
      BY <1>5 DEF Step, Switched
    <3> QED
      BY <3>1, Places
  <2>2. Return(a) /\ UNCHANGED <<state, apply, ana, luma, hw>>
    BY <1>5 DEF Switched, applying, parts
  <2> QED
    BY <2>1, <2>2, Lengths
       DEF DataTyped, Working, OnSwitch, Goes, Resting, AllDown,
           Alive, Ready, Startable, Together
<1>6. CASE CmdStop(a)
  <2>1. op = "deinit" /\ i = 1
    <3>1. Script[op][i] = "cmdStop"
      BY <1>6 DEF Step, CmdStop
    <3> QED
      BY <3>1, Places
  <2>2. Advance(a) /\ UNCHANGED <<state, apply, ana, luma, hw>>
    BY <1>6 DEF CmdStop, applying, parts, manager
  <2> QED
    BY <2>1, <2>2, Lengths
       DEF DataTyped, Working, OnDeinit, Goes, Resting, AllDown,
           Alive, Ready, Startable, Together
<1>7. CASE Gone(a)
  <2>1. op = "deinit" /\ i = 5
    <3>1. Script[op][i] = "gone"
      BY <1>7 DEF Step, Gone
    <3> QED
      BY <3>1, Places
  <2>2. Return(a) /\ state' = "invalid" /\ UNCHANGED <<apply, ana, luma, hw>>
    BY <1>7 DEF Gone, applying, parts
  <2> QED
    BY <2>1, <2>2, Lengths
       DEF DataTyped, Working, OnDeinit, Goes, Resting, AllDown,
           Alive, Ready, Startable, Together
<1> QED
  BY <1>1, <1>2, <1>3, <1>4, <1>5, <1>6, <1>7

LEMMA Continues ==
    ASSUME DataTyped, NEW a \in Actors, NEW op \in DOMAIN Script,
           NEW i \in 1..Len(Script[op]), Step(a, op, i),
           NEW m, m = call[a].mode, Working(op, i, m),
           "hwStart" \notin Faults, Lifecycle(a)
    PROVE  Goes(a, op, i, m)
BY ApplySteps, AnaSteps, LumaSteps, HwSteps, LastSteps DEF Lifecycle

\* All calls are over, or the one that is not is where it finds what it needs.
Standing == InCall /\ AtRest

LEMMA StandingNext ==
    ASSUME ManagerAssumption, "hwStart" \notin Faults,
           Typed, Alone, InCall, NEW a \in Actors, Lifecycle(a)
    PROVE  Standing'
<1>1. call[a].todo # <<>> /\ ~Idle(a)
  BY Outcomes DEF Idle, NoCall
<1>2. PICK op \in DOMAIN Script :
         \E i \in 1..Len(Script[op]) :
              /\ call[a].todo = Left(op, i)
              /\ op = "switch" <=> a = "cmd"
              /\ Working(op, i, call[a].mode)
              /\ \A x : At(a, x) <=> x = Script[op][i]
  BY <1>1, Position
<1>3. PICK i \in 1..Len(Script[op]) :
              /\ call[a].todo = Left(op, i)
              /\ op = "switch" <=> a = "cmd"
              /\ Working(op, i, call[a].mode)
              /\ \A x : At(a, x) <=> x = Script[op][i]
  BY <1>2
<1>4. PICK m : m = call[a].mode
  OBVIOUS
<1>5. Goes(a, op, i, m)
  BY <1>3, <1>4, Continues, TypedParts DEF Step
<1>6. /\ call \in [Actors -> [todo : Seq(Steps), mode : Modes]]
      /\ \A b \in Actors \ {a} : Idle(b)
  BY <1>1, Single DEF Typed
<1>7. ASSUME NEW o \in DOMAIN Script, NEW j \in 1..Len(Script[o]),
             call' = [call EXCEPT ![a] = [todo |-> Left(o, j), mode |-> m]],
             o = "switch" <=> a = "cmd", Working(o, j, m)'
      PROVE  Standing'
  <2>1. call'[a] = [todo |-> Left(o, j), mode |-> m]
    BY <1>6, <1>7
  <2>2. \A b \in Actors \ {a} : Idle(b)'
    BY <1>6, <1>7 DEF Idle
  <2>3. /\ Left(o, j) # <<>>
        /\ call'[a].todo = Left(o, j) /\ call'[a].mode = m
    <3>1. j \in 1..(Len(Script[o]) + 1) /\ j # Len(Script[o]) + 1
      BY Lengths
    <3> QED
      BY <2>1, <3>1, Ahead
  <2>4. ~Idle(a)'
    BY <2>3 DEF Idle, NoCall
  <2>5. Busy(a)'
    <3>1. PICK n : n = call'[a].mode
      OBVIOUS
    <3>2. Working(o, j, n)'
      BY <1>7, <2>3, <3>1
    <3> QED
      BY <1>7, <2>3, <3>1, <3>2 DEF Busy
  <2> QED
    BY <2>2, <2>4, <2>5 DEF Standing, InCall, AtRest
<1>8. CASE Advance(a) /\ i < Len(Script[op]) /\ Working(op, i + 1, m)'
  <2>1. i + 1 \in 1..Len(Script[op])
    BY <1>8, Lengths
  <2>2. call' = [call EXCEPT ![a] = [todo |-> Left(op, i + 1), mode |-> m]]
    BY <1>3, <1>4, <1>8, Moves
  <2> QED
    BY <1>3, <1>7, <1>8, <2>1, <2>2
<1>9. CASE Return(a) /\ Resting'
  <2>1. \A b \in Actors : Idle(b)'
    BY <1>6, <1>9 DEF Return, Idle
  <2> QED
    BY <1>9, <2>1 DEF Standing, InCall, AtRest
<1>10. CASE Refuse(a) /\ op = "switch" /\ Working("switch", 9, m)'
  <2>1. 9 \in 1..Len(Script["switch"])
    BY Lengths
  <2>2. call' = [call EXCEPT ![a] = [todo |-> Left("switch", 9), mode |-> m]]
    BY <1>3, <1>4, <1>10, Moves
  <2> QED
    BY <1>3, <1>7, <1>10, <2>1, <2>2
<1> QED
  BY <1>5, <1>8, <1>9, <1>10 DEF Goes

\* A switch does not change the state of the manager.
LEMMA SwitchKeepsState ==
    ASSUME Typed, InCall, "cmd" \in Actors, Lifecycle("cmd")
    PROVE  state' = state
<1>1. PICK op \in DOMAIN Script :
         \E i \in 1..Len(Script[op]) :
              /\ op = "switch"
              /\ \A x : At("cmd", x) <=> x = Script[op][i]
  BY Outcomes, Position
<1>2. PICK i \in 1..Len(Script[op]) :
              /\ op = "switch"
              /\ \A x : At("cmd", x) <=> x = Script[op][i]
  BY <1>1
<1>3. Script[op][i] \notin {"prepared", "started", "stoped", "gone"}
  BY <1>2, Places
<1>4. ~(Prepared("cmd") \/ Started("cmd") \/ Stoped("cmd") \/ Gone("cmd"))
  BY <1>2, <1>3 DEF Prepared, Started, Stoped, Gone
<1> QED
  BY <1>4 DEF Lifecycle, manager, ApplyStart, ApplyStop, ApplyInit, Reapply,
       AnaPrepare, AnaStart, AnaStop, AnaDeinit, LumaPrepare, LumaStart,
       LumaStop, LumaDeinit, HwPrepare, HwStart, HwStop, HwDeinit, HwPause,
       HwSwitch, HwResume, HwSet, CheckSwitch, Switched, CmdStop

LEMMA AloneCall ==
    ASSUME ManagerAssumption, Typed, Alone, InCall,
           NEW a \in Actors, Lifecycle(a)
    PROVE  Alone'
<1>1. call[a].todo # <<>> /\ (Advance(a) \/ Return(a) \/ Refuse(a))
  BY Outcomes
<1>2. ~Idle(a)
  BY <1>1 DEF Idle, NoCall
<1>3. /\ a \in {Main, "cmd"} /\ \A b \in Actors : b # a => Idle(b)
      /\ a = Main => \A u \in Users : sender[u] = "out"
      /\ a = "cmd" => \E u \in Users : sender[u] = "waiting"
  BY <1>2, Single
<1>4. \A b \in Actors : b # a => call'[b] = call[b]
  BY <1>1 DEF Advance, Return, Refuse, Typed
<1>5. Main \in Actors /\ "cmd" \in Actors /\ Main # "cmd"
  BY DEF ManagerAssumption, Actors
<1>6. \A u \in Users \ {Main} : Idle(u)'
  BY <1>3, <1>4 DEF Idle, Actors, ManagerAssumption
<1>7. CASE a = Main
  <2>1. UNCHANGED <<cmdq, sender>>
    BY <1>1, <1>5, <1>7 DEF Advance, Return, Refuse
  <2>2. Idle("cmd")'
    BY <1>3, <1>4, <1>5, <1>7 DEF Idle
  <2> QED
    BY <1>3, <1>6, <1>7, <2>1, <2>2 DEF Alone
<1>8. CASE a = "cmd"
  <2>1. state' = state /\ Idle(Main)'
    BY <1>3, <1>4, <1>5, <1>8, SwitchKeepsState DEF Idle
  <2>2. CASE ~Return(a)
    <3>1. UNCHANGED <<cmdq, sender>>
      BY <1>1, <2>2 DEF Advance, Refuse
    <3> QED
      BY <1>3, <1>6, <1>8, <2>1, <3>1 DEF Alone
  <2>3. CASE Return(a)
    <3>1. PICK u \in Users : sender[u] = "waiting"
      BY <1>3, <1>8
    <3>2. Len(cmdq) = 1 /\ cmdq[1].from = u
          /\ \A v \in Users : v # u => sender[v] = "out"
      BY <3>1 DEF Alone
    <3>3. cmdq \in Seq([from : Users, mode : Modes])
      BY DEF Typed
    <3>4. Head(cmdq) = cmdq[1] /\ Tail(cmdq) = <<>>
      <4>1. cmdq # <<>>
        <5>1. Len(cmdq) # Len(<<>>)
          BY <3>2
        <5> QED
          BY <5>1, Zenon
      <4>2. /\ Tail(cmdq) \in Seq([from : Users, mode : Modes])
            /\ Len(Tail(cmdq)) = Len(cmdq) - 1
        BY <3>3, <4>1, HeadTailProperties
      <4>3. Len(Tail(cmdq)) \notin Nat \ {0}
        BY <3>2, <4>2
      <4>4. Tail(cmdq) = <<>>
        BY <4>2, <4>3, EmptySeq, Zenon
      <4> QED
        BY <3>3, <4>1, <4>4
    <3>5. /\ cmdq' = Tail(cmdq)
          /\ sender' = [v \in Users |->
                IF v = Head(cmdq).from /\ sender[v] = "waiting"
                THEN "out" ELSE sender[v]]
      BY <1>8, <2>3 DEF Return, MutexFree
    <3>6. cmdq' = <<>> /\ \A v \in Users : sender'[v] = "out"
      BY <3>1, <3>2, <3>4, <3>5
    <3>7. Idle("cmd")'
      BY <1>5, <1>8, <2>3 DEF Return, Idle, Typed
    <3> QED
      BY <1>6, <3>6, <3>7 DEF Alone
  <2> QED
    BY <2>2, <2>3
<1> QED
  BY <1>3, <1>7, <1>8

-----------------------------------------------------------------------------
(* The other steps. *)

Serial == ~Concurrent /\ "hwStart" \notin Faults

LEMMA BeginNext ==
    ASSUME ManagerAssumption, Serial, Inv,
           NEW op \in DOMAIN Script \ {"switch"}, NEW m \in Modes, Begin(op, m),
           Resting => Working(op, 1, m)
    PROVE  Alone' /\ Standing'
<1>1. Quiet /\ cmdq = <<>>
  BY DEF Begin, MayCall, Serial, Inv, Alone, Quiet
<1>2. /\ call' = [call EXCEPT ![Main] = [todo |-> Script[op], mode |-> m]]
      /\ UNCHANGED <<state, mode, apply, rst, params, ana, luma, hw, cmd, cmdq,
                     sender>>
  BY DEF Begin, manager, applying, parts, commands
<1>3. /\ Main \in Actors /\ "cmd" \in Actors /\ Main # "cmd"
      /\ call \in [Actors -> [todo : Seq(Steps), mode : Modes]]
      /\ op \in DOMAIN Script
  BY DEF ManagerAssumption, Actors, Inv, Typed
<1>4. \A b \in Actors \ {Main} : Idle(b)'
  BY <1>1, <1>2, <1>3 DEF Quiet, Idle
<1>5. Alone'
  BY <1>1, <1>2, <1>3, <1>4 DEF Alone, Quiet, Actors
<1>6. /\ call'[Main].todo = Left(op, 1) /\ call'[Main].mode = m
      /\ 1 \in 1..Len(Script[op]) /\ Script[op] # <<>>
  <2>1. call'[Main] = [todo |-> Script[op], mode |-> m]
    BY <1>2, <1>3
  <2>2. Left(op, 1) # <<>>
    <3>1. 1 \in 1..(Len(Script[op]) + 1) /\ 1 # Len(Script[op]) + 1
      BY <1>3, First, Lengths
    <3> QED
      BY <1>3, <3>1, Ahead
  <2> QED
    BY <1>3, <2>1, <2>2, First
<1>7. ~Idle(Main)'
  BY <1>2, <1>3, <1>6 DEF Idle, NoCall
<1>8. Working(op, 1, m)'
  <2>1. Working(op, 1, m)
    BY <1>1 DEF Inv, AtRest, Quiet
  <2> QED
    BY <1>2, <2>1 DEF Working, OnPrepare, OnStart, OnStop, OnDeinit, OnSwitch,
         AllDown, Alive, Ready, Startable, Together
<1>9. Busy(Main)'
  <2>1. PICK n : n = call'[Main].mode
    OBVIOUS
  <2>2. Working(op, 1, n)'
    BY <1>6, <1>8, <2>1
  <2> QED
    BY <1>3, <1>6, <2>1, <2>2 DEF Busy
<1>10. Standing'
  BY <1>3, <1>4, <1>7, <1>9 DEF Standing, InCall, AtRest
<1> QED
  BY <1>5, <1>10

LEMMA TakeNext ==
    ASSUME ManagerAssumption, Inv, TakeCommand
    PROVE  Alone' /\ Standing'
<1>1. PICK m : m = Head(cmdq).mode
  OBVIOUS
<1>2. /\ cmdq # <<>> /\ MutexFree(Head(cmdq).from) /\ Idle("cmd")
      /\ call' = [call EXCEPT !["cmd"] = [todo |-> Script["switch"], mode |-> m]]
      /\ UNCHANGED <<state, mode, apply, rst, params, ana, luma, hw, cmd, cmdq,
                     sender>>
  BY <1>1 DEF TakeCommand, manager, applying, parts, commands
<1>3. /\ Main \in Actors /\ "cmd" \in Actors /\ Main # "cmd"
      /\ call \in [Actors -> [todo : Seq(Steps), mode : Modes]]
      /\ "switch" \in DOMAIN Script
  BY Scripts DEF ManagerAssumption, Actors, Inv, Typed
<1>4. Head(cmdq).from \in Users
  <2>1. cmdq \in Seq([from : Users, mode : Modes])
    BY DEF Inv, Typed
  <2>2. Head(cmdq) \in [from : Users, mode : Modes]
    BY <1>2, <2>1, HeadTailProperties
  <2> QED
    BY <2>2
<1>5. /\ \E u \in Users : sender[u] = "waiting"
      /\ \A b \in Actors : Idle(b)
      /\ state = "started"
  BY <1>2, <1>3, <1>4 DEF Inv, Alone, MutexFree, Actors
<1>6. \A b \in Actors \ {"cmd"} : Idle(b)'
  BY <1>2, <1>3, <1>5 DEF Idle
<1>7. Alone'
  BY <1>2, <1>3, <1>5, <1>6 DEF Inv, Alone, Actors, ManagerAssumption
<1>8. /\ call'["cmd"].todo = Left("switch", 1) /\ call'["cmd"].mode = m
      /\ 1 \in 1..Len(Script["switch"]) /\ Script["switch"] # <<>>
  <2>1. call'["cmd"] = [todo |-> Script["switch"], mode |-> m]
    BY <1>2, <1>3
  <2>2. Left("switch", 1) # <<>>
    <3>1. 1 \in 1..(Len(Script["switch"]) + 1) /\ 1 # Len(Script["switch"]) + 1
      BY Lengths
    <3> QED
      BY <1>3, <3>1, Ahead
  <2>3. Script["switch"] = Left("switch", 1)
    <3>1. Script["switch"] \in Seq(Steps)
      BY <1>3, Lengths
    <3> QED
      BY <3>1, SubSeqFull DEF Left
  <2> QED
    BY <2>1, <2>2, <2>3, Lengths
<1>9. ~Idle("cmd")'
  BY <1>2, <1>3, <1>8 DEF Idle, NoCall
<1>10. Working("switch", 1, m)'
  <2>1. Resting
    BY <1>5 DEF Inv, AtRest
  <2> QED
    BY <1>2, <1>5, <2>1 DEF Resting, Working, OnSwitch, Startable, Together
<1>11. Busy("cmd")'
  <2>1. PICK n : n = call'["cmd"].mode
    OBVIOUS
  <2>2. Working("switch", 1, n)'
    BY <1>8, <1>10, <2>1
  <2> QED
    BY <1>3, <1>8, <2>1, <2>2 DEF Busy
<1>12. Standing'
  BY <1>3, <1>6, <1>9, <1>11 DEF Standing, InCall, AtRest
<1> QED
  BY <1>7, <1>12

LEMMA SendNext ==
    ASSUME ManagerAssumption, Serial, Inv, NEW u \in Users,
           SwitchCall(u) \/ SenderWaits(u)
    PROVE  Alone' /\ Standing'
<1>1. UNCHANGED <<state, mode, apply, rst, params, ana, luma, hw, cmd, call>>
  BY DEF SwitchCall, SenderWaits, manager, applying, parts
<1>2. Standing'
  BY <1>1 DEF Inv, Standing, InCall, AtRest, Idle, Busy, Working, Resting,
       OnPrepare, OnStart, OnStop, OnDeinit, OnSwitch, AllDown, Alive, Ready,
       Startable, Together
<1>3. CASE SwitchCall(u)
  <2>1. PICK m \in Modes : cmdq' = Append(cmdq, [from |-> u, mode |-> m])
    BY <1>3 DEF SwitchCall
  <2>2. Quiet /\ state = "started" /\ sender' = [sender EXCEPT ![u] = "pushed"]
    BY <1>3 DEF SwitchCall, MayCall, Serial
  <2>3. cmdq = <<>> /\ sender \in [Users -> {"out", "pushed", "waiting"}]
        /\ Main \in Actors /\ "cmd" \in Actors
    BY <2>2 DEF Inv, Typed, Alone, Quiet, ManagerAssumption, Actors
  <2>4. Len(cmdq') = 1 /\ cmdq'[1].from = u
    BY <2>1, <2>3
  <2>5. sender'[u] = "pushed" /\ \A v \in Users \ {u} : sender'[v] = "out"
    BY <2>2, <2>3 DEF Quiet
  <2>6. \A b \in Actors : Idle(b)'
    BY <1>1, <2>2 DEF Quiet, Idle
  <2>7. \A v \in Users : sender'[v] # "out" => v = u
    BY <2>5
  <2>8. Idle(Main)' /\ Idle("cmd")' /\ \A v \in Users \ {Main} : Idle(v)'
    BY <2>3, <2>6 DEF Actors
  <2>9. state' = "started" /\ sender'[u] # "out"
    BY <1>1, <2>2, <2>5
  <2> QED
    BY <1>2, <2>4, <2>7, <2>8, <2>9 DEF Alone
<1>4. CASE SenderWaits(u)
  <2>1. sender[u] = "pushed" /\ sender' = [sender EXCEPT ![u] = "waiting"]
        /\ cmdq' = cmdq
    BY <1>4 DEF SenderWaits
  <2>2. sender \in [Users -> {"out", "pushed", "waiting"}]
    BY DEF Inv, Typed
  <2>3. sender'[u] = "waiting" /\ \A v \in Users \ {u} : sender'[v] = sender[v]
    BY <2>1, <2>2
  <2>4. \A v \in Users : (sender'[v] = "out") <=> (sender[v] = "out")
    BY <2>1, <2>3
  <2>5. \A v \in Users : sender[v] = "waiting" => sender'[v] = "waiting"
    BY <2>3
  <2>6. call' = call
    BY <1>1
  <2>7. Alone
    BY DEF Inv
  <2>8. state' = state
    BY <1>1
  <2> QED
    BY <1>2, <2>1, <2>4, <2>5, <2>6, <2>7, <2>8 DEF Alone, Idle
<1> QED
  BY <1>2, <1>3, <1>4

\* Where the call of thread a is, and what holds there.
LEMMA Where ==
    ASSUME Inv, NEW a \in Actors, call[a].todo # <<>>
    PROVE  \E op \in DOMAIN Script : \E i \in 1..Len(Script[op]) :
              Step(a, op, i) /\ Working(op, i, call[a].mode)
BY Position DEF Inv, Step

\* The hardware streams in the mode of the analyzer.
LEMMA Coupled ==
    ASSUME Inv, hw.on
    PROVE  Together
<1>1. CASE \A a \in Actors : Idle(a)
  BY <1>1 DEF Inv, AtRest, Resting
<1>2. ASSUME NEW a \in Actors, ~Idle(a) PROVE Together
  <2>1. PICK op \in DOMAIN Script : \E i \in 1..Len(Script[op]) :
                Working(op, i, call[a].mode)
    BY <1>2 DEF Inv, InCall, Busy
  <2>2. PICK i \in 1..Len(Script[op]) : Working(op, i, call[a].mode)
    BY <2>1
  <2>3. i \in Int /\ op \in {"prepare", "start", "stop", "deinit", "switch"}
    BY Scripts
  <2>4. CASE op = "prepare"
    BY <2>2, <2>4 DEF Working, OnPrepare, AllDown
  <2>5. CASE op = "start" \/ op = "stop" \/ op = "deinit"
    BY <2>2, <2>5 DEF Working, OnStart, OnStop, OnDeinit
  <2>6. CASE op = "switch"
    <3>1. i # 7
      BY <2>2, <2>6 DEF Working, OnSwitch
    <3> QED
      BY <2>2, <2>6, <3>1 DEF Working, OnSwitch
  <2> QED
    BY <2>3, <2>4, <2>5, <2>6
<1> QED
  BY <1>1, <1>2

\* The mode of the hardware changes only while the apply thread is stopped.
LEMMA ModeKept ==
    ASSUME Inv, NEW a \in Actors, Lifecycle(a), apply
    PROVE  hw'.mode = hw.mode
<1>1. call[a].todo # <<>>
  BY Outcomes
<1>2. PICK op \in DOMAIN Script : \E i \in 1..Len(Script[op]) :
              Step(a, op, i) /\ Working(op, i, call[a].mode)
  BY <1>1, Where
<1>3. PICK i \in 1..Len(Script[op]) :
              Step(a, op, i) /\ Working(op, i, call[a].mode)
  BY <1>2
<1>4. ~HwPrepare(a)
  <2> SUFFICES ASSUME HwPrepare(a) PROVE FALSE
    OBVIOUS
  <2>1. Script[op][i] = "hwPrepare"
    BY <1>3 DEF HwPrepare, Step
  <2>2. op = "prepare"
    BY <2>1, Places
  <2> QED
    BY <1>3, <2>2 DEF Working, OnPrepare, AllDown
<1>5. ~HwSwitch(a)
  <2> SUFFICES ASSUME HwSwitch(a) PROVE FALSE
    OBVIOUS
  <2>1. Script[op][i] = "hwSwitch"
    BY <1>3 DEF HwSwitch, Step
  <2>2. op = "switch" /\ i = 6
    BY <2>1, Places
  <2> QED
    BY <1>3, <2>2 DEF Working, OnSwitch
<1>6. hw \in [st : CoreStates \cup {"paused"}, mode : Modes, on : BOOLEAN]
  BY DEF Inv, Typed
<1>7. CASE HwStart(a) \/ HwDeinit(a)
  <2>1. \/ hw' = [hw EXCEPT !.st = "started", !.on = TRUE]
        \/ hw' = [hw EXCEPT !.st = "invalid"]
        \/ hw' = hw
    BY <1>7 DEF HwStart, HwDeinit
  <2> QED
    BY <1>6, <2>1
<1>8. CASE HwStop(a) \/ HwPause(a) \/ HwResume(a)
  BY <1>6, <1>8 DEF HwStop, HwPause, HwResume, HwSet
<1>9. CASE UNCHANGED hw
  BY <1>9
<1> QED
  BY <1>4, <1>5, <1>7, <1>8, <1>9
     DEF Lifecycle, parts, ApplyStart, ApplyStop, ApplyInit, Reapply,
         AnaPrepare, AnaStart, AnaStop, AnaDeinit, LumaPrepare, LumaStart,
         LumaStop, LumaDeinit, CheckSwitch, Prepared, Started, Stoped,
         Switched, CmdStop, Gone

LEMMA QueuedNext ==
    ASSUME ManagerAssumption, Inv, [Next]_vars
    PROVE  Queued'
<1>1. Queued /\ rst \in Seq([mode : Modes, late : BOOLEAN])
  BY DEF Inv, Typed
<1>2. CASE UNCHANGED <<rst, apply, hw>>
  BY <1>1, <1>2 DEF Queued
<1>3. CASE Analyze
  <2>1. PICK r : r = [mode |-> ana.mode, late |-> ~apply]
    OBVIOUS
  <2>2. rst' = Append(rst, r) /\ hw.on /\ UNCHANGED <<apply, hw>>
    BY <1>3, <2>1 DEF Analyze, parts
  <2>3. \/ r.late
        \/ apply /\ ("hwPrepare" \notin Faults => r.mode = hw.mode)
    BY <2>1, <2>2, Coupled DEF Together
  <2>4. \A i \in DOMAIN rst' : \/ rst'[i] = r
                               \/ i \in DOMAIN rst /\ rst'[i] = rst[i]
    BY <1>1, <2>2
  <2> QED
    BY <1>1, <2>2, <2>3, <2>4 DEF Queued
<1>4. CASE ApplyResult
  <2>1. rst # <<>> /\ rst' = Tail(rst) /\ UNCHANGED <<apply, hw>>
    BY <1>4 DEF ApplyResult, parts
  <2>2. \A i \in DOMAIN rst' : i + 1 \in DOMAIN rst /\ rst'[i] = rst[i + 1]
    BY <1>1, <2>1
  <2> QED
    BY <1>1, <2>1, <2>2 DEF Queued
<1>5. ASSUME NEW a \in Actors, Lifecycle(a) PROVE Queued'
  <2>1. CASE ApplyStart(a)
    BY <1>1, <2>1 DEF ApplyStart, parts, Queued
  <2>2. CASE ApplyStop(a)
    <3>1. ~apply' /\ hw' = hw /\ rst' = IF apply THEN <<>> ELSE rst
      BY <2>2 DEF ApplyStop, parts
    <3>2. CASE apply
      BY <3>1, <3>2 DEF Queued
    <3>3. CASE ~apply
      BY <1>1, <3>1, <3>3 DEF Queued
    <3> QED
      BY <3>2, <3>3
  <2>3. CASE ~ApplyStart(a) /\ ~ApplyStop(a)
    <3>1. UNCHANGED <<apply, rst>>
      BY <1>5, <2>3
         DEF Lifecycle, applying, ApplyInit, Reapply,
             AnaPrepare, AnaStart, AnaStop, AnaDeinit, LumaPrepare, LumaStart,
             LumaStop, LumaDeinit, HwPrepare, HwStart, HwStop, HwDeinit,
             HwPause, HwSwitch, HwResume, HwSet, CheckSwitch, Prepared,
             Started, Stoped, Switched, CmdStop, Gone
    <3>2. apply => hw'.mode = hw.mode
      BY <1>5, ModeKept
    <3> QED
      BY <1>1, <3>1, <3>2 DEF Queued
  <2> QED
    BY <2>1, <2>2, <2>3
<1>6. CASE \/ PrepareCall \/ StartCall \/ StopCall \/ DeinitCall
           \/ \E u \in Users : SwitchCall(u) \/ SenderWaits(u)
           \/ TakeCommand \/ UNCHANGED vars
  BY <1>2, <1>6 DEF PrepareCall, StartCall, StopCall, DeinitCall, Begin,
       SwitchCall, SenderWaits, TakeCommand, vars, applying, parts
<1> QED
  BY <1>3, <1>4, <1>5, <1>6 DEF Next

-----------------------------------------------------------------------------
(* The invariant, and what follows from it. *)

LEMMA InitInv ==
    ASSUME ManagerAssumption, Init
    PROVE  Inv
<1>1. Typed
  BY InitTyped
<1>2. \A a \in Actors : Idle(a)
  BY DEF Init, Idle
<1>3. Main \in Users /\ "cmd" \in Actors /\ Users \subseteq Actors
  BY DEF ManagerAssumption, Actors
<1>4. Alone
  BY <1>2, <1>3 DEF Init, Alone
<1>5. InCall
  BY <1>2 DEF InCall
<1>6. AtRest
  BY DEF Init, AtRest, Resting, Together, AllDown, Alive
<1>7. Queued
  BY DEF Init, Queued
<1> QED
  BY <1>1, <1>4, <1>5, <1>6, <1>7 DEF Inv

LEMMA NextInv ==
    ASSUME ManagerAssumption, Serial, Inv, [Next]_vars
    PROVE  Inv'
<1>1. Typed' /\ Queued'
  BY TypedNext, QueuedNext DEF Inv
<1>2. CASE PrepareCall
  <2>1. PICK m \in Modes : Begin("prepare", m)
    BY <1>2 DEF PrepareCall
  <2>2. "prepare" \in DOMAIN Script \ {"switch"}
    BY Scripts
  <2>3. Resting => Working("prepare", 1, m)
    BY <1>2 DEF PrepareCall, Resting, Working, OnPrepare
  <2>4. Alone' /\ Standing'
    BY <2>1, <2>2, <2>3, BeginNext
  <2> QED
    BY <1>1, <2>4 DEF Inv, Standing
<1>3. CASE StartCall
  <2>1. Begin("start", Normal) /\ Normal \in Modes
    BY <1>3 DEF StartCall, ManagerAssumption
  <2>2. "start" \in DOMAIN Script \ {"switch"}
    BY Scripts
  <2>3. Resting => Working("start", 1, Normal)
    BY <1>3 DEF StartCall, Resting, Working, OnStart, AllDown, Ready, Alive
  <2>4. Alone' /\ Standing'
    BY <2>1, <2>2, <2>3, BeginNext
  <2> QED
    BY <1>1, <2>4 DEF Inv, Standing
<1>4. CASE StopCall
  <2>1. Begin("stop", Normal) /\ Normal \in Modes
    BY <1>4 DEF StopCall, ManagerAssumption
  <2>2. "stop" \in DOMAIN Script \ {"switch"}
    BY Scripts
  <2>3. Resting => Working("stop", 1, Normal)
    BY <1>4 DEF StopCall, Resting, Working, OnStop, Ready, Alive, Startable
  <2>4. Alone' /\ Standing'
    BY <2>1, <2>2, <2>3, BeginNext
  <2> QED
    BY <1>1, <2>4 DEF Inv, Standing
<1>5. CASE DeinitCall
  <2>1. Begin("deinit", Normal) /\ Normal \in Modes
    BY <1>5 DEF DeinitCall, ManagerAssumption
  <2>2. "deinit" \in DOMAIN Script \ {"switch"}
    BY Scripts
  <2>3. Resting => Working("deinit", 1, Normal)
    BY <1>5 DEF DeinitCall, Resting, Working, OnDeinit
  <2>4. Alone' /\ Standing'
    BY <2>1, <2>2, <2>3, BeginNext
  <2> QED
    BY <1>1, <2>4 DEF Inv, Standing
<1>6. CASE \E u \in Users : SwitchCall(u) \/ SenderWaits(u)
  BY <1>1, <1>6, SendNext DEF Inv, Standing
<1>7. CASE TakeCommand
  BY <1>1, <1>7, TakeNext DEF Inv, Standing
<1>8. CASE \E a \in Actors : Lifecycle(a)
  <2>1. Typed /\ Alone /\ InCall /\ "hwStart" \notin Faults
    BY DEF Inv, Serial
  <2>2. Alone' /\ Standing'
    BY <1>8, <2>1, AloneCall, StandingNext
  <2> QED
    BY <1>1, <2>2 DEF Inv, Standing
<1>9. CASE Analyze \/ ApplyResult \/ UNCHANGED vars
  <2>1. UNCHANGED <<state, apply, ana, luma, hw, cmdq, call, sender>>
    BY <1>9 DEF Analyze, ApplyResult, vars, manager, parts, commands
  <2>2. Alone' /\ AtRest'
    BY <2>1 DEF Inv, Alone, AtRest, Idle, Resting, AllDown, Alive, Ready,
         Startable, Together
  <2>3. InCall'
    BY <2>1 DEF Inv, InCall, Idle, Busy, Working, OnPrepare, OnStart, OnStop,
         OnDeinit, OnSwitch, AllDown, Alive, Ready, Startable, Together
  <2> QED
    BY <1>1, <2>2, <2>3 DEF Inv
<1> QED
  BY <1>2, <1>3, <1>4, <1>5, <1>6, <1>7, <1>8, <1>9 DEF Next

LEMMA Invariance ==
    ASSUME Serial
    PROVE  Spec => []Inv
<1>1. Init => Inv
  BY InitInv, ManagerAssumption
<1>2. Inv /\ [Next]_vars => Inv'
  BY NextInv, ManagerAssumption
<1> QED
  BY <1>1, <1>2, PTL DEF Spec

\* Between calls a manager that is not started has stopped everything: for an
\* application that serializes its calls, whatever fails but the start of the
\* hardware (RkAiqManager::stop, swWorkingModeDyn and what they call).
THEOREM StopStopsAlways ==
    ASSUME ~Concurrent, "hwStart" \notin Faults
    PROVE  Spec => []StopStops
<1>1. Serial
  BY DEF Serial
<1>2. Inv => StopStops
  BY DEF Inv, AtRest, Resting, StopStops, Quiet
<1> QED
  BY <1>1, <1>2, Invariance, PTL

\* start reports success, and a switch comes to its end, with every part running
\* and the analyzer prepared for the mode of the hardware, if no prepare failed
\* half way (RkAiqManager::start and swWorkingModeDyn, whether the sensor takes
\* the mode or refuses it).
THEOREM StartedRunsAlways ==
    ASSUME ~Concurrent, {"hwPrepare", "hwStart"} \cap Faults = {}
    PROVE  Spec => []StartedRuns
<1>1. Serial /\ "hwPrepare" \notin Faults
  BY DEF Serial
<1>2. Inv => StartedRuns
  <2> SUFFICES ASSUME Inv, NEW a \in Actors, At(a, "started") \/ At(a, "switched")
               PROVE  AllUp /\ ana.mode = hw.mode
    BY DEF StartedRuns
  <2>1. PICK op \in DOMAIN Script : \E i \in 1..Len(Script[op]) :
                Step(a, op, i) /\ Working(op, i, call[a].mode)
    BY Where DEF At
  <2>2. PICK i \in 1..Len(Script[op]) :
                Step(a, op, i) /\ Working(op, i, call[a].mode)
    BY <2>1
  <2>3. CASE At(a, "started")
    <3>1. Script[op][i] = "started"
      BY <2>2, <2>3 DEF Step, At
    <3>2. op = "start" /\ i = 6
      BY <3>1, Places
    <3>3. OnStart(6)
      BY <2>2, <3>2 DEF Working
    <3> QED
      BY <1>1, <3>3 DEF OnStart, AllUp, Together
  <2>4. CASE At(a, "switched")
    <3>1. Script[op][i] = "switched"
      BY <2>2, <2>4 DEF Step, At
    <3>2. op = "switch" /\ i = 13
      BY <3>1, Places
    <3>3. OnSwitch(13, call[a].mode)
      BY <2>2, <3>2 DEF Working
    <3> QED
      BY <1>1, <3>3 DEF OnSwitch, AllUp, Together
  <2> QED
    BY <2>3, <2>4
<1> QED
  BY <1>1, <1>2, Invariance, PTL

\* A queued result of another mode than that of the hardware came late
\* (rkAiqCalcDone against the stop of the apply thread).
THEOREM OnlyLateMisfitAlways ==
    ASSUME ~Concurrent, {"hwPrepare", "hwStart"} \cap Faults = {}
    PROVE  Spec => []OnlyLateMisfit
<1>1. Serial /\ "hwPrepare" \notin Faults
  BY DEF Serial
<1>2. Inv => OnlyLateMisfit
  BY <1>1 DEF Inv, Queued, OnlyLateMisfit
<1> QED
  BY <1>1, <1>2, Invariance, PTL

\* The hardware begins to stream, on a start or after a switch that succeeds or
\* is refused, only with the analyzer prepared for its mode
\* (CamHwIsp20::start and resume).
THEOREM StreamsInModeAlways ==
    ASSUME ~Concurrent, {"hwPrepare", "hwStart"} \cap Faults = {}
    PROVE  Spec => StreamsInMode
<1> DEFINE P == ~hw.on /\ hw.on' => ana.mode = hw.mode
<1>1. Serial /\ "hwPrepare" \notin Faults
  BY DEF Serial
<1>2. Inv /\ [Next]_vars => P
  <2> SUFFICES ASSUME Inv, [Next]_vars, ~hw.on, hw.on'
               PROVE  ana.mode = hw.mode
    OBVIOUS
  <2>1. hw \in [st : CoreStates \cup {"paused"}, mode : Modes, on : BOOLEAN]
    BY DEF Inv, Typed
  <2>2. PICK a \in Actors : Lifecycle(a)
    BY DEF Next, PrepareCall, StartCall, StopCall, DeinitCall, Begin,
         SwitchCall, SenderWaits, TakeCommand, Analyze, ApplyResult, vars, parts
  <2>3. HwStart(a) \/ HwResume(a)
    <3>1. ~(HwPrepare(a) \/ HwSwitch(a))
      BY <2>1 DEF HwPrepare, HwSwitch
    <3>2. ~(HwStop(a) \/ HwPause(a) \/ HwDeinit(a))
      BY <2>1 DEF HwStop, HwPause, HwSet, HwDeinit
    <3> QED
      BY <2>2, <3>1, <3>2
         DEF Lifecycle, parts, ApplyStart, ApplyStop, ApplyInit, Reapply,
             AnaPrepare, AnaStart, AnaStop, AnaDeinit, LumaPrepare, LumaStart,
             LumaStop, LumaDeinit, CheckSwitch, Prepared, Started, Stoped,
             Switched, CmdStop, Gone
  <2>4. PICK op \in DOMAIN Script : \E i \in 1..Len(Script[op]) :
                Step(a, op, i) /\ Working(op, i, call[a].mode)
    BY <2>2, Outcomes, Where
  <2>5. PICK i \in 1..Len(Script[op]) :
                Step(a, op, i) /\ Working(op, i, call[a].mode)
    BY <2>4
  <2>6. Script[op][i] \in {"hwStart", "hwResume"}
    BY <2>3, <2>5 DEF Step, HwStart, HwResume, HwSet
  <2>7. (op = "start" /\ i = 5) \/ (op = "switch" /\ i = 9)
    BY <2>6, Places
  <2>8. Together
    BY <2>5, <2>7 DEF Working, OnStart, OnSwitch
  <2> QED
    BY <1>1, <2>8 DEF Together
<1>3. P => [P]_vars
  OBVIOUS
<1> QED
  BY <1>1, <1>2, <1>3, Invariance, PTL DEF Spec, StreamsInMode

=============================================================================
