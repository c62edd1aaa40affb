---------------------------- MODULE StreamProofs ----------------------------
(* One stage of a stream, for any size of its sources, pipes and limits.      *)
EXTENDS Stream, FiniteSetTheorems, TLAPS

USE StreamAssumption

-----------------------------------------------------------------------------
(* The inductive invariant. *)

\* The handler has started p and not yet waited for it.
Started(p) == proc[p] \in {"running", "exited"}

\* Which processes there are at each point of the handler's way: it has started
\* them in order, and has waited for those before it in the order of the waits.
Handled ==
    /\ \A p \in Proc : p \notin Stages => proc[p] = "none"
    /\ \A p \in Proc : proc[p] \in {"none", "running"} => code[p] = "ok"
    /\ spc = "mkdir" => kind = "mp3" /\ \A p \in Proc : proc[p] = "none"
    /\ spc = "start" /\ kind = "single" => proc["video"] = "none"
    /\ spc = "start" /\ kind = "mp3" =>
          proc["ffmpeg"] = "none" /\ proc["audio"] \in {"none", "reaped"}
    /\ spc = "start" /\ kind = "merge" =>
          /\ proc["audio"] = "none" /\ \A p \in Proc : proc[p] # "reaped"
          /\ proc["ffmpeg"] = "none" => proc["video"] = "none"
    /\ spc = "fetched" => kind = "mp3" /\ Started("audio") /\ proc["ffmpeg"] = "none"
    /\ spc = "close" => kind = "merge" /\ \A p \in Proc : Started(p)
    /\ spc = "abort" => kind = "merge"
    /\ spc \in {"copy", "wait"} =>
          /\ Started(Last)
          /\ kind = "merge" => \A p \in Proc : Started(p)
          /\ kind = "mp3" => proc["audio"] = "reaped"
    /\ spc = "waitVideo" =>
          kind = "merge" /\ proc["ffmpeg"] = "reaped" /\ Started("video") /\ Started("audio")
    /\ spc = "waitAudio" =>
          /\ kind = "merge" /\ proc["ffmpeg"] = "reaped"
          /\ proc["video"] = "reaped" /\ Started("audio")
    /\ spc = "finish" => \A p \in Stages : proc[p] = "reaped"
    /\ spc = "crashed" => \A p \in Proc : proc[p] = "none"
    /\ spc = "returned" => \A p \in Proc : proc[p] \in {"none", "reaped"}

\* The pipes' ends and the scratch directory, and when there is an error of the
\* copy or a result.
Belongings ==
    /\ held => kind = "merge" /\ spc \in {"start", "close", "abort"}
    /\ spc = "returned" => ~scratch
    /\ copyErr # "none" => spc \in {"wait", "waitVideo", "waitAudio", "finish", "returned"}
    /\ result # "none" => spc = "returned"

\* No chunk appears: what has been copied and what is on its way were read from
\* the sources. While the copy has no error none disappears either.
Conserved ==
    /\ want \in Sources
    /\ \A s \in Source : taken[s] <= sent[s] /\ (s \notin Sources => sent[s] = 0)
    /\ kind = "single" =>
          /\ taken["video"] = 0 /\ mem = 0
          /\ written + outq <= sent["video"]
          /\ copyErr = "none" => written + outq = sent["video"]
    /\ kind # "single" =>
          /\ written + outq + mem <= taken["video"] + taken["audio"]
          /\ copyErr = "none" => written + outq + mem = taken["video"] + taken["audio"]
    /\ limit > 0 => written <= limit

\* What an exit code of zero says of the bytes.
ExitsTell ==
    /\ \A s \in Source : Gone(s) /\ code[s] = "ok" => sent[s] \in {0, Chunks}
    /\ kind # "single" /\ Gone("ffmpeg") /\ code["ffmpeg"] = "ok" =>
          mem = 0 /\ \A s \in Sources : Gone(s) /\ taken[s] = sent[s] /\ taken[s] > 0
    /\ kind = "mp3" /\ spc \notin {"fetched", "returned"} /\ proc["audio"] = "reaped" =>
          code["audio"] = "ok"

\* What the end of the copy says of them.
CopiedAll ==
    spc \in {"wait", "waitVideo", "waitAudio", "finish"} /\ copyErr = "none" =>
        Gone(Last) /\ outq = 0

Whole ==
    result = "nil" =>
        /\ \A s \in Sources : sent[s] = Chunks
        /\ written = IF kind = "merge" THEN 2 * Chunks ELSE Chunks

StInv == StTypeOK /\ Handled /\ Belongings /\ Conserved /\ ExitsTell /\ CopiedAll /\ Whole

-----------------------------------------------------------------------------
(* The stages one by one. *)

LEMMA KindCases ==
    ASSUME kind \in Kinds
    PROVE  /\ kind \in {"single", "merge", "mp3"}
           /\ kind = "single" => Sources = {"video"} /\ Last = "video" /\ Stages = {"video"}
           /\ kind = "merge" => Sources = Source /\ Last = "ffmpeg" /\ Stages = Proc
           /\ kind = "mp3" => /\ Sources = {"audio"} /\ Last = "ffmpeg"
                              /\ Stages = {"audio", "ffmpeg"}
           /\ Sources \subseteq Source /\ Last \in Stages /\ Stages \subseteq Proc
<1>1. kind \in {"single", "merge", "mp3"}
  OBVIOUS
<1>2. CASE kind = "single"
  <2>1. Order = <<"video">>
    BY <1>2 DEF Order
  <2>2. Stages = {"video"}
    BY <2>1 DEF Stages
  <2> QED BY <1>2, <2>2 DEF Sources, Last, Source, Proc
<1>3. CASE kind = "merge"
  <2>1. Order = <<"ffmpeg", "video", "audio">>
    BY <1>3 DEF Order
  <2>2. DOMAIN Order = {1, 2, 3}
    BY <2>1
  <2>3. Stages = {"ffmpeg", "video", "audio"}
    BY <2>1, <2>2 DEF Stages
  <2> QED BY <1>3, <2>3 DEF Sources, Last, Source, Proc
<1>4. CASE kind = "mp3"
  <2>1. Order = <<"audio", "ffmpeg">>
    BY <1>4 DEF Order
  <2>2. DOMAIN Order = {1, 2}
    BY <2>1
  <2>3. Stages = {"audio", "ffmpeg"}
    BY <2>1, <2>2 DEF Stages
  <2> QED BY <1>4, <2>3 DEF Sources, Last, Source, Proc
<1> QED BY <1>1, <1>2, <1>3, <1>4

\* The process that is started next, spelled out.
LEMMA NextStartIs ==
    ASSUME kind \in Kinds, NEW p, NextStart(p)
    PROVE  /\ p \in Stages /\ proc[p] = "none"
           /\ kind = "merge" => /\ p = "video" => proc["ffmpeg"] # "none"
                                /\ p = "audio" => /\ proc["ffmpeg"] # "none"
                                                  /\ proc["video"] # "none"
           /\ kind = "mp3" => (p = "ffmpeg" => proc["audio"] # "none")
<1>1. PICK i \in DOMAIN Order : /\ Order[i] = p /\ proc[p] = "none"
                                /\ \A k \in 1..(i - 1) : proc[Order[k]] # "none"
  BY DEF NextStart
<1>2. p \in Stages
  BY <1>1 DEF Stages
<1>3. CASE kind = "merge"
  <2>1. Order = <<"ffmpeg", "video", "audio">>
    BY <1>3 DEF Order
  <2>2. i \in {1, 2, 3}
    BY <1>1, <2>1
  <2>3. CASE i = 1
    BY <1>1, <1>2, <1>3, <2>1, <2>3
  <2>4. CASE i = 2
    BY <1>1, <1>2, <1>3, <2>1, <2>4
  <2>5. CASE i = 3
    BY <1>1, <1>2, <1>3, <2>1, <2>5
  <2> QED BY <2>2, <2>3, <2>4, <2>5
<1>4. CASE kind = "mp3"
  <2>1. Order = <<"audio", "ffmpeg">>
    BY <1>4 DEF Order
  <2>2. i \in {1, 2}
    BY <1>1, <2>1
  <2>3. CASE i = 1
    BY <1>1, <1>2, <1>4, <2>1, <2>3
  <2>4. CASE i = 2
    BY <1>1, <1>2, <1>4, <2>1, <2>4
  <2> QED BY <2>2, <2>3, <2>4
<1>5. CASE kind \notin {"merge", "mp3"}
  BY <1>1, <1>2, <1>5
<1> QED BY <1>3, <1>4, <1>5

LEMMA KindStays ==
    ASSUME UNCHANGED fixVars
    PROVE  /\ kind' = kind /\ limit' = limit
           /\ Sources' = Sources /\ Last' = Last /\ Stages' = Stages
  BY DEF fixVars, Sources, Last, Stages, Order

-----------------------------------------------------------------------------
(* The steps. *)

LEMMA YtWriteInv ==
    ASSUME StInv, NEW s \in Source, YtWrite(s)
    PROVE  StInv'
<1> USE DEF StInv
<1>a. UNCHANGED fixVars
  BY DEF YtWrite, Room
<1>b. kind \in Kinds
  BY DEF StTypeOK
<1>c. kind' = kind /\ limit' = limit /\ Sources' = Sources /\ Last' = Last /\ Stages' = Stages
  BY <1>a, KindStays
<1>1. StTypeOK'
  <2>1. outq' \in 0..PipeCap
    <3>1. CASE kind = "single"
      <4>1. outq < PipeCap /\ outq' = outq + 1
        BY <3>1 DEF YtWrite, Room
      <4> QED BY <4>1 DEF StTypeOK
    <3>2. CASE kind # "single"
      BY <3>2 DEF StTypeOK, YtWrite
    <3> QED BY <3>1, <3>2
  <2>2. sent' \in [Source -> 0..Chunks]
    BY DEF StTypeOK, YtWrite
  <2> QED BY <1>b, <1>c, <2>1, <2>2 DEF StTypeOK, YtWrite, procVars, outVars
<1>2. Handled'
  BY <1>c DEF Handled, YtWrite, Started, procVars
<1>3. Belongings'
  BY <1>c DEF Belongings, YtWrite, outVars
<1>4. Conserved'
  BY <1>c, KindCases DEF Conserved, StTypeOK, Handled, YtWrite, Running, Source, Proc, outVars
<1>5. ExitsTell'
  BY <1>c DEF ExitsTell, YtWrite, Gone, Running, procVars
<1>6. CopiedAll'
  BY <1>b, <1>c, KindCases DEF CopiedAll, YtWrite, Gone, Running, Proc, procVars, outVars,
       Handled
<1>7. Whole'
  BY <1>c DEF Whole, YtWrite, outVars
<1> QED BY <1>1, <1>2, <1>3, <1>4, <1>5, <1>6, <1>7

LEMMA YtSkipsInv ==
    ASSUME StInv, NEW s \in Source, YtSkips(s)
    PROVE  StInv'
<1> USE DEF StInv
<1>a. UNCHANGED fixVars
  BY DEF YtSkips
<1>c. kind' = kind /\ limit' = limit /\ Sources' = Sources /\ Last' = Last /\ Stages' = Stages
  BY <1>a, KindStays
<1>1. StTypeOK'
  BY <1>c DEF StTypeOK, YtSkips, procVars, outVars
<1>2. Handled'
  BY <1>c DEF Handled, YtSkips, Started, procVars
<1>3. Belongings'
  BY <1>c DEF Belongings, YtSkips, outVars
<1>4. Conserved'
  BY <1>c DEF Conserved, YtSkips, outVars
<1>5. ExitsTell'
  BY <1>c DEF ExitsTell, YtSkips, Gone, procVars
<1>6. CopiedAll'
  BY <1>c DEF CopiedAll, YtSkips, Gone, procVars, outVars
<1>7. Whole'
  BY <1>c DEF Whole, YtSkips, outVars
<1> QED BY <1>1, <1>2, <1>3, <1>4, <1>5, <1>6, <1>7

LEMMA YtExitsInv ==
    ASSUME StInv, NEW s \in Source, YtExits(s)
    PROVE  StInv'
<1> USE DEF StInv
<1>a. UNCHANGED fixVars
  BY DEF YtExits
<1>c. kind' = kind /\ limit' = limit /\ Sources' = Sources /\ Last' = Last /\ Stages' = Stages
  BY <1>a, KindStays
<1>1. StTypeOK'
  BY <1>c DEF StTypeOK, YtExits, Proc, dataVars, outVars, Exit
<1>2. Handled'
  BY <1>c DEF Handled, YtExits, Running, Started, Exit
<1>3. Belongings'
  BY <1>c DEF Belongings, YtExits, outVars
<1>4. Conserved'
  BY <1>c DEF Conserved, YtExits, dataVars, outVars
<1>5. ExitsTell'
  BY <1>c DEF ExitsTell, YtExits, Gone, Source, dataVars, Exit
<1>6. CopiedAll'
  BY <1>c DEF CopiedAll, YtExits, Gone, dataVars, outVars, Exit
<1>7. Whole'
  BY <1>c DEF Whole, YtExits, dataVars, outVars
<1> QED BY <1>1, <1>2, <1>3, <1>4, <1>5, <1>6, <1>7

LEMMA YtFailsInv ==
    ASSUME StInv, NEW s \in Source, YtFails(s) \/ YtBreaks(s)
    PROVE  StInv'
<1> USE DEF StInv
<1>a. UNCHANGED fixVars
  BY DEF YtFails, YtBreaks
<1>b. kind \in Kinds
  BY DEF StTypeOK
<1>c. kind' = kind /\ limit' = limit /\ Sources' = Sources /\ Last' = Last /\ Stages' = Stages
  BY <1>a, KindStays
<1>1. StTypeOK'
  BY <1>c DEF StTypeOK, YtFails, YtBreaks, dataVars, outVars, Exit
<1>2. Handled'
  BY <1>c, KindCases DEF Handled, YtFails, YtBreaks, Running, Started, Source, Proc, Exit,
       StTypeOK
<1>3. Belongings'
  BY <1>c DEF Belongings, YtFails, YtBreaks, outVars
<1>4. Conserved'
  BY <1>c DEF Conserved, YtFails, YtBreaks, dataVars, outVars
<1>5. ExitsTell'
  <2>1. /\ code' = [code EXCEPT ![s] = "failed"]
        /\ proc' = [proc EXCEPT ![s] = "exited"] /\ proc[s] = "running"
        /\ UNCHANGED <<spc, sent, taken, mem>>
    BY DEF YtFails, YtBreaks, Exit, Running, dataVars
  <2> QED BY <1>b, <1>c, <2>1, KindCases DEF StTypeOK, ExitsTell, Gone, Proc, Source
<1>6. CopiedAll'
  BY <1>c, KindCases DEF CopiedAll, YtFails, YtBreaks, Gone, dataVars, outVars, Exit, StTypeOK
<1>7. Whole'
  BY <1>c DEF Whole, YtFails, YtBreaks, dataVars, outVars
<1> QED BY <1>1, <1>2, <1>3, <1>4, <1>5, <1>6, <1>7

LEMMA FfReadInv ==
    ASSUME StInv, NEW s \in Source, FfRead(s)
    PROVE  StInv'
<1> USE DEF StInv
<1>a. UNCHANGED fixVars
  BY DEF FfRead
<1>c. kind' = kind /\ limit' = limit /\ Sources' = Sources /\ Last' = Last /\ Stages' = Stages
  BY <1>a, KindStays
<1>1. StTypeOK'
  BY <1>c, KindCases DEF StTypeOK, FfRead, procVars, outVars
<1>2. Handled'
  BY <1>c DEF Handled, FfRead, Started, procVars
<1>3. Belongings'
  BY <1>c DEF Belongings, FfRead, outVars
<1>4. Conserved'
  BY <1>c, KindCases DEF Conserved, StTypeOK, Handled, FfRead, Running, Source, Proc, outVars
<1>5. ExitsTell'
  BY <1>c DEF ExitsTell, FfRead, Gone, Running, procVars
<1>6. CopiedAll'
  BY <1>c DEF CopiedAll, FfRead, Gone, procVars, outVars
<1>7. Whole'
  BY <1>c DEF Whole, FfRead, outVars
<1> QED BY <1>1, <1>2, <1>3, <1>4, <1>5, <1>6, <1>7

LEMMA FfSeesEndInv ==
    ASSUME StInv, NEW s \in Source, FfSeesEnd(s)
    PROVE  StInv'
<1> USE DEF StInv
<1>a. UNCHANGED fixVars
  BY DEF FfSeesEnd
<1>c. kind' = kind /\ limit' = limit /\ Sources' = Sources /\ Last' = Last /\ Stages' = Stages
  BY <1>a, KindStays
<1>1. StTypeOK'
  BY <1>c, KindCases DEF StTypeOK, FfSeesEnd, procVars, outVars
<1>2. Handled'
  BY <1>c DEF Handled, FfSeesEnd, Started, procVars
<1>3. Belongings'
  BY <1>c DEF Belongings, FfSeesEnd, outVars
<1>4. Conserved'
  BY <1>c DEF Conserved, FfSeesEnd, outVars
<1>5. ExitsTell'
  BY <1>c DEF ExitsTell, FfSeesEnd, Gone, procVars
<1>6. CopiedAll'
  BY <1>c DEF CopiedAll, FfSeesEnd, Gone, procVars, outVars
<1>7. Whole'
  BY <1>c DEF Whole, FfSeesEnd, outVars
<1> QED BY <1>1, <1>2, <1>3, <1>4, <1>5, <1>6, <1>7

LEMMA FfWriteInv ==
    ASSUME StInv, FfWrite
    PROVE  StInv'
<1> USE DEF StInv
<1>a. UNCHANGED fixVars
  BY DEF FfWrite
<1>b. kind \in Kinds
  BY DEF StTypeOK
<1>c. kind' = kind /\ limit' = limit /\ Sources' = Sources /\ Last' = Last /\ Stages' = Stages
  BY <1>a, KindStays
<1>1. StTypeOK'
  BY <1>c DEF StTypeOK, FfWrite, procVars, outVars
<1>2. Handled'
  BY <1>c DEF Handled, FfWrite, Started, procVars
<1>3. Belongings'
  BY <1>c DEF Belongings, FfWrite, outVars
<1>4. Conserved'
  BY <1>c DEF Conserved, FfWrite, outVars, StTypeOK
<1>5. ExitsTell'
  BY <1>c DEF ExitsTell, FfWrite, Gone, procVars
<1>6. CopiedAll'
  BY <1>b, KindCases DEF CopiedAll, FfWrite, Gone, Running, Proc, outVars, Handled
<1>7. Whole'
  BY <1>c DEF Whole, FfWrite, outVars
<1> QED BY <1>1, <1>2, <1>3, <1>4, <1>5, <1>6, <1>7

LEMMA FfExitsInv ==
    ASSUME StInv, FfExits
    PROVE  StInv'
<1> USE DEF StInv
<1>a. UNCHANGED fixVars
  BY DEF FfExits, AtEnd
<1>c. kind' = kind /\ limit' = limit /\ Sources' = Sources /\ Last' = Last /\ Stages' = Stages
  BY <1>a, KindStays
<1>1. StTypeOK'
  BY <1>c DEF StTypeOK, FfExits, Proc, dataVars, outVars, Exit
<1>2. Handled'
  BY <1>c DEF Handled, FfExits, Running, Started, Exit
<1>3. Belongings'
  BY <1>c DEF Belongings, FfExits, outVars
<1>4. Conserved'
  BY <1>c DEF Conserved, FfExits, dataVars, outVars
<1>5. ExitsTell'
  BY <1>c DEF ExitsTell, FfExits, AtEnd, Gone, Source, dataVars, Exit
<1>6. CopiedAll'
  BY <1>c DEF CopiedAll, FfExits, Gone, dataVars, outVars, Exit
<1>7. Whole'
  BY <1>c DEF Whole, FfExits, dataVars, outVars
<1> QED BY <1>1, <1>2, <1>3, <1>4, <1>5, <1>6, <1>7

LEMMA FfFailsInv ==
    ASSUME StInv, FfFails \/ FfNoStream
    PROVE  StInv'
<1> USE DEF StInv
<1>a. UNCHANGED fixVars
  BY DEF FfFails, FfNoStream
<1>b. kind \in Kinds
  BY DEF StTypeOK
<1>c. kind' = kind /\ limit' = limit /\ Sources' = Sources /\ Last' = Last /\ Stages' = Stages
  BY <1>a, KindStays
<1>1. StTypeOK'
  BY <1>c DEF StTypeOK, FfFails, FfNoStream, dataVars, outVars, Exit
<1>2. Handled'
  BY <1>c, KindCases DEF Handled, FfFails, FfNoStream, Running, Started, Source, Proc, Exit,
       StTypeOK
<1>3. Belongings'
  BY <1>c DEF Belongings, FfFails, FfNoStream, outVars
<1>4. Conserved'
  BY <1>c DEF Conserved, FfFails, FfNoStream, dataVars, outVars
<1>5. ExitsTell'
  <2>1. /\ code' = [code EXCEPT !["ffmpeg"] = "failed"]
        /\ proc' = [proc EXCEPT !["ffmpeg"] = "exited"]
        /\ UNCHANGED <<spc, sent, taken, mem>>
    BY DEF FfFails, FfNoStream, Exit, dataVars
  <2> QED BY <1>b, <1>c, <2>1, KindCases DEF StTypeOK, ExitsTell, Gone, Proc, Source
<1>6. CopiedAll'
  BY <1>c, KindCases DEF CopiedAll, FfFails, FfNoStream, Gone, dataVars, outVars, Exit,
       StTypeOK
<1>7. Whole'
  BY <1>c DEF Whole, FfFails, FfNoStream, dataVars, outVars
<1> QED BY <1>1, <1>2, <1>3, <1>4, <1>5, <1>6, <1>7

LEMMA KillInv ==
    ASSUME StInv, NEW p \in Proc, KillGroup(p)
    PROVE  StInv'
<1> USE DEF StInv
<1>a. UNCHANGED fixVars
  BY DEF KillGroup
<1>c. kind' = kind /\ limit' = limit /\ Sources' = Sources /\ Last' = Last /\ Stages' = Stages
  BY <1>a, KindStays
<1>1. StTypeOK'
  BY <1>c DEF StTypeOK, KillGroup, dataVars, outVars, Exit
<1>2. Handled'
  BY <1>c DEF Handled, KillGroup, Running, Started, Exit, StTypeOK
<1>3. Belongings'
  BY <1>c DEF Belongings, KillGroup, outVars
<1>4. Conserved'
  BY <1>c DEF Conserved, KillGroup, dataVars, outVars
<1>5. ExitsTell'
  BY <1>c DEF ExitsTell, KillGroup, Gone, dataVars, Exit, StTypeOK
<1>6. CopiedAll'
  BY <1>c DEF CopiedAll, KillGroup, Gone, dataVars, outVars, Exit
<1>7. Whole'
  BY <1>c DEF Whole, KillGroup, dataVars, outVars
<1> QED BY <1>1, <1>2, <1>3, <1>4, <1>5, <1>6, <1>7

LEMMA CtxDoneInv ==
    ASSUME StInv, CtxDone
    PROVE  StInv'
<1> USE DEF StInv
<1>a. UNCHANGED fixVars
  BY DEF CtxDone
<1>c. kind' = kind /\ limit' = limit /\ Sources' = Sources /\ Last' = Last /\ Stages' = Stages
  BY <1>a, KindStays
<1>1. StTypeOK'
  BY <1>c DEF StTypeOK, CtxDone, procVars, dataVars, outVars
<1>2. Handled'
  BY <1>c DEF Handled, CtxDone, Started, procVars
<1>3. Belongings'
  BY <1>c DEF Belongings, CtxDone, outVars
<1>4. Conserved'
  BY <1>c DEF Conserved, CtxDone, dataVars, outVars
<1>5. ExitsTell'
  BY <1>c DEF ExitsTell, CtxDone, Gone, procVars, dataVars
<1>6. CopiedAll'
  BY <1>c DEF CopiedAll, CtxDone, Gone, procVars, dataVars, outVars
<1>7. Whole'
  BY <1>c DEF Whole, CtxDone, dataVars, outVars
<1> QED BY <1>1, <1>2, <1>3, <1>4, <1>5, <1>6, <1>7

LEMMA MakeScratchInv ==
    ASSUME StInv, MakeScratch
    PROVE  StInv'
<1> USE DEF StInv
<1>a. UNCHANGED fixVars
  BY DEF MakeScratch, Return
<1>b. kind \in Kinds
  BY DEF StTypeOK
<1>c. kind' = kind /\ limit' = limit /\ Sources' = Sources /\ Last' = Last /\ Stages' = Stages
  BY <1>a, KindStays
<1>1. StTypeOK'
  BY <1>b, <1>c DEF StTypeOK, MakeScratch, Return, procVars, dataVars, outVars
<1>2. Handled'
  BY <1>b, <1>c, KindCases DEF Handled, MakeScratch, Return, procVars
<1>3. Belongings'
  BY DEF Belongings, MakeScratch, Return, outVars
<1>4. Conserved'
  BY <1>c DEF Conserved, MakeScratch, dataVars, outVars
<1>5. ExitsTell'
  BY <1>c DEF ExitsTell, MakeScratch, Gone, procVars, dataVars
<1>6. CopiedAll'
  BY DEF CopiedAll, MakeScratch, Return
<1>7. Whole'
  BY <1>c DEF Whole, MakeScratch, Return, dataVars, outVars
<1> QED BY <1>1, <1>2, <1>3, <1>4, <1>5, <1>6, <1>7

LEMMA StartInv ==
    ASSUME StInv, NEW p \in Proc, Start(p)
    PROVE  StInv'
<1> USE DEF StInv
<1>a. UNCHANGED fixVars
  BY DEF Start, AfterStart
<1>b. kind \in Kinds
  BY DEF StTypeOK
<1>c. kind' = kind /\ limit' = limit /\ Sources' = Sources /\ Last' = Last /\ Stages' = Stages
  BY <1>a, KindStays
<1>1. StTypeOK'
  BY <1>c DEF StTypeOK, Start, AfterStart, dataVars, outVars
<1>2. Handled'
  BY <1>c, KindCases, NextStartIs DEF Handled, Start, AfterStart, Started, Source, Proc,
       StTypeOK
<1>3. Belongings'
  BY <1>c DEF Belongings, Start, AfterStart, outVars
<1>4. Conserved'
  BY <1>c DEF Conserved, Start, dataVars, outVars
<1>5. ExitsTell'
  BY <1>b, <1>c, NextStartIs DEF ExitsTell, Start, Gone, dataVars
<1>6. CopiedAll'
  BY DEF CopiedAll, Start, AfterStart
<1>7. Whole'
  BY <1>c DEF Whole, Start, dataVars, outVars
<1> QED BY <1>1, <1>2, <1>3, <1>4, <1>5, <1>6, <1>7

LEMMA StartFailsInv ==
    ASSUME StInv, NEW p \in Proc, StartFails(p)
    PROVE  StInv'
<1> USE DEF StInv
<1>a. UNCHANGED fixVars
  BY DEF StartFails, Return
<1>b. kind \in Kinds
  BY DEF StTypeOK
<1>c. kind' = kind /\ limit' = limit /\ Sources' = Sources /\ Last' = Last /\ Stages' = Stages
  BY <1>a, KindStays
<1>1. StTypeOK'
  BY <1>b, <1>c DEF StTypeOK, StartFails, Return, procVars, dataVars, outVars
<1>2. Handled'
  BY <1>b, <1>c, KindCases DEF Handled, StartFails, Return, procVars
<1>3. Belongings'
  BY <1>c DEF Belongings, StartFails, Return, outVars
<1>4. Conserved'
  BY <1>c DEF Conserved, StartFails, dataVars, outVars
<1>5. ExitsTell'
  BY <1>c DEF ExitsTell, StartFails, Gone, procVars, dataVars
<1>6. CopiedAll'
  BY DEF CopiedAll, StartFails, Return
<1>7. Whole'
  BY <1>c DEF Whole, StartFails, Return, dataVars, outVars
<1> QED BY <1>1, <1>2, <1>3, <1>4, <1>5, <1>6, <1>7

LEMMA AbortMergeInv ==
    ASSUME StInv, AbortMerge
    PROVE  StInv'
<1> USE DEF StInv
<1>a. UNCHANGED fixVars
  BY DEF AbortMerge, Reap, Return
<1>b. kind \in Kinds
  BY DEF StTypeOK
<1>c. kind' = kind /\ limit' = limit /\ Sources' = Sources /\ Last' = Last /\ Stages' = Stages
  BY <1>a, KindStays
<1>1. StTypeOK'
  <2>1. /\ proc' \in [Proc -> {"none", "running", "exited", "reaped"}]
        /\ code' \in [Proc -> {"ok", "failed", "killed"}]
    BY <1>c DEF StTypeOK, AbortMerge, Reap, Proc, procVars
  <2> QED BY <1>b, <1>c, <2>1 DEF StTypeOK, AbortMerge, Return, dataVars, outVars
<1>2. Handled'
  BY <1>c DEF Handled, AbortMerge, Reap, Return, procVars, StTypeOK
<1>3. Belongings'
  BY <1>c DEF Belongings, AbortMerge, Return, outVars
<1>4. Conserved'
  BY <1>c DEF Conserved, AbortMerge, dataVars, outVars
<1>5. ExitsTell'
  BY <1>c, KindCases DEF ExitsTell, StTypeOK, Handled, AbortMerge, Reap, Gone, Proc,
       procVars, dataVars
<1>6. CopiedAll'
  BY DEF CopiedAll, AbortMerge, Return
<1>7. Whole'
  BY <1>c DEF Whole, AbortMerge, Return, dataVars, outVars
<1> QED BY <1>1, <1>2, <1>3, <1>4, <1>5, <1>6, <1>7

LEMMA ClosePipesInv ==
    ASSUME StInv, ClosePipes
    PROVE  StInv'
<1> USE DEF StInv
<1>a. UNCHANGED fixVars
  BY DEF ClosePipes
<1>b. kind \in Kinds
  BY DEF StTypeOK
<1>c. kind' = kind /\ limit' = limit /\ Sources' = Sources /\ Last' = Last /\ Stages' = Stages
  BY <1>a, KindStays
<1>1. StTypeOK'
  BY <1>b, <1>c DEF StTypeOK, ClosePipes, procVars, dataVars, outVars
<1>2. Handled'
  BY <1>b, <1>c, KindCases DEF Handled, ClosePipes, Started, procVars
<1>3. Belongings'
  BY DEF Belongings, ClosePipes, outVars
<1>4. Conserved'
  BY <1>c DEF Conserved, ClosePipes, dataVars, outVars
<1>5. ExitsTell'
  BY <1>c DEF ExitsTell, ClosePipes, Gone, procVars, dataVars
<1>6. CopiedAll'
  BY DEF CopiedAll, ClosePipes
<1>7. Whole'
  BY <1>c DEF Whole, ClosePipes, dataVars, outVars
<1> QED BY <1>1, <1>2, <1>3, <1>4, <1>5, <1>6, <1>7

LEMMA FetchedInv ==
    ASSUME StInv, NEW c \in WaitCode, Fetched(c)
    PROVE  StInv'
<1> USE DEF StInv
<1>a. UNCHANGED fixVars
  BY DEF Fetched, Reap, Return, WaitCode
<1>b. kind \in Kinds
  BY DEF StTypeOK
<1>c. kind' = kind /\ limit' = limit /\ Sources' = Sources /\ Last' = Last /\ Stages' = Stages
  BY <1>a, KindStays
<1>1. StTypeOK'
  BY <1>b, <1>c DEF StTypeOK, Fetched, Reap, Return, Source, Proc, procVars, dataVars, outVars
<1>2. Handled'
  BY <1>c, KindCases DEF Handled, Fetched, Reap, Return, StTypeOK
<1>3. Belongings'
  BY DEF Belongings, Fetched, Return, outVars
<1>4. Conserved'
  BY <1>c DEF Conserved, Fetched, dataVars, outVars
<1>5. ExitsTell'
  BY <1>c DEF ExitsTell, Fetched, Reap, Return, Gone, dataVars
<1>6. CopiedAll'
  BY DEF CopiedAll, Fetched, Return
<1>7. Whole'
  BY <1>c DEF Whole, Fetched, Return, dataVars, outVars
<1> QED BY <1>1, <1>2, <1>3, <1>4, <1>5, <1>6, <1>7

LEMMA CopyInv ==
    ASSUME StInv, CopyChunk
    PROVE  StInv'
<1> USE DEF StInv
<1>a. UNCHANGED fixVars
  BY DEF CopyChunk, OverLimit
<1>c. kind' = kind /\ limit' = limit /\ Sources' = Sources /\ Last' = Last /\ Stages' = Stages
  BY <1>a, KindStays
<1>1. StTypeOK'
  BY <1>c DEF StTypeOK, CopyChunk, OverLimit, Source, procVars, Conserved
<1>2. Handled'
  BY <1>c DEF Handled, CopyChunk, Started, procVars
<1>3. Belongings'
  BY DEF Belongings, CopyChunk
<1>4. Conserved'
  BY <1>c DEF Conserved, CopyChunk, OverLimit, StTypeOK
<1>5. ExitsTell'
  BY <1>c DEF ExitsTell, CopyChunk, Gone, procVars
<1>6. CopiedAll'
  BY DEF CopiedAll, CopyChunk
<1>7. Whole'
  BY DEF Whole, CopyChunk, Belongings
<1> QED BY <1>1, <1>2, <1>3, <1>4, <1>5, <1>6, <1>7

LEMMA CopyEndsInv ==
    ASSUME StInv, CopyOver \/ CopyEOF
    PROVE  StInv'
<1> USE DEF StInv
<1>a. UNCHANGED fixVars
  BY DEF CopyOver, CopyEOF, EndCopy, OverLimit
<1>b. kind \in Kinds
  BY DEF StTypeOK
<1>c. kind' = kind /\ limit' = limit /\ Sources' = Sources /\ Last' = Last /\ Stages' = Stages
  BY <1>a, KindStays
<1>1. StTypeOK'
  <2>1. ASSUME NEW e \in {"none", "over", "client"}, EndCopy(e)
        PROVE  /\ spc' = "wait" /\ copyErr' \in {"none", "over", "client"}
               /\ ended' \in BOOLEAN
    BY <2>1 DEF EndCopy, StTypeOK
  <2>2. CASE CopyOver
    BY <1>b, <1>c, <2>1, <2>2 DEF StTypeOK, CopyOver, procVars
  <2>3. CASE CopyEOF
    BY <1>b, <1>c, <2>1, <2>3 DEF StTypeOK, CopyEOF, procVars, dataVars
  <2> QED BY <2>2, <2>3
<1>2. Handled'
  BY <1>c DEF Handled, CopyOver, CopyEOF, EndCopy, Started, procVars
<1>3. Belongings'
  BY DEF Belongings, CopyOver, CopyEOF, EndCopy
<1>4. Conserved'
  BY <1>c DEF Conserved, StTypeOK, Belongings, CopyOver, CopyEOF, EndCopy,
       dataVars
<1>5. ExitsTell'
  BY <1>c DEF ExitsTell, CopyOver, CopyEOF, Gone, procVars, dataVars
<1>6. CopiedAll'
  BY <1>c DEF CopiedAll, CopyOver, CopyEOF, EndCopy, Gone, procVars, dataVars
<1>7. Whole'
  BY <1>c DEF Whole, CopyOver, CopyEOF, dataVars
<1> QED BY <1>1, <1>2, <1>3, <1>4, <1>5, <1>6, <1>7

\* A copy that the client ended: the chunk at hand may have been written.
LEMMA CopyClientGoneInv ==
    ASSUME StInv, CopyClientGone
    PROVE  StInv'
<1> USE DEF StInv
<1>a. UNCHANGED fixVars
  BY DEF CopyClientGone, EndCopy
<1>b. kind \in Kinds /\ written \in Nat /\ outq \in 0..PipeCap /\ outq > 0 /\ copyErr = "none"
  BY DEF StTypeOK, CopyClientGone, Belongings
<1>c. kind' = kind /\ limit' = limit /\ Sources' = Sources /\ Last' = Last /\ Stages' = Stages
  BY <1>a, KindStays
<1>d. /\ spc' = "wait" /\ copyErr' = "client" /\ ended' = TRUE
      /\ outq' = outq - 1 /\ written' \in {written, written + 1}
      /\ UNCHANGED <<procVars, held, sent, taken, want, mem, tooLarge, scratch, result>>
  BY <1>b DEF CopyClientGone, EndCopy
<1>1. StTypeOK'
  <2>1. written' \in 0..(IF limit > 0 THEN limit ELSE 2 * Chunks)
    BY <1>b, <1>d DEF CopyClientGone, OverLimit, Conserved, StTypeOK, Source
  <2>2. outq' \in 0..PipeCap
    BY <1>b, <1>d
  <2> QED BY <1>c, <1>d, <2>1, <2>2 DEF StTypeOK, procVars
<1>2. Handled'
  BY <1>c, <1>d DEF Handled, CopyClientGone, Started, procVars
<1>3. Belongings'
  BY <1>d DEF Belongings, CopyClientGone
<1>4. Conserved'
  <2>1. limit > 0 => written' <= limit
    BY <1>b, <1>d DEF CopyClientGone, OverLimit, StTypeOK
  <2>2. written' + outq' <= written + outq
    <3>1. written \in Int /\ outq \in Int /\ outq' = outq - 1
      BY <1>b, <1>d
    <3>2. CASE written' = written
      BY <3>1, <3>2
    <3>3. CASE written' = written + 1
      BY <3>1, <3>3
    <3> QED BY <1>d, <3>2, <3>3
  <2> QED BY <1>b, <1>c, <1>d, <2>1, <2>2 DEF Conserved, StTypeOK, Source
<1>5. ExitsTell'
  BY <1>c, <1>d DEF ExitsTell, CopyClientGone, Gone, procVars
<1>6. CopiedAll'
  BY <1>d DEF CopiedAll
<1>7. Whole'
  BY <1>d DEF Whole, Belongings, CopyClientGone
<1> QED BY <1>1, <1>2, <1>3, <1>4, <1>5, <1>6, <1>7

LEMMA WaitLastInv ==
    ASSUME StInv, NEW c \in WaitCode, WaitLast(c)
    PROVE  StInv'
<1> USE DEF StInv
<1>a. UNCHANGED fixVars
  BY DEF WaitLast, Reap, WaitCode
<1>b. kind \in Kinds
  BY DEF StTypeOK
<1>c. kind' = kind /\ limit' = limit /\ Sources' = Sources /\ Last' = Last /\ Stages' = Stages
  BY <1>a, KindStays
<1>1. StTypeOK'
  BY <1>c DEF StTypeOK, WaitLast, Reap, dataVars, outVars
<1>2. Handled'
  BY <1>c, KindCases DEF Handled, WaitLast, Reap, Started, Source, Proc, StTypeOK
<1>3. Belongings'
  BY DEF Belongings, WaitLast
<1>4. Conserved'
  BY <1>c DEF Conserved, WaitLast, dataVars, outVars
<1>5. ExitsTell'
  BY <1>b, <1>c, KindCases DEF ExitsTell, WaitLast, Reap, Gone, dataVars
<1>6. CopiedAll'
  BY <1>c DEF CopiedAll, WaitLast, Reap, Gone, dataVars, outVars
<1>7. Whole'
  BY <1>c DEF Whole, WaitLast, dataVars, outVars
<1> QED BY <1>1, <1>2, <1>3, <1>4, <1>5, <1>6, <1>7

LEMMA WaitSourceInv ==
    ASSUME StInv, NEW s \in Source, NEW c \in WaitCode, WaitSource(s, c)
    PROVE  StInv'
<1> USE DEF StInv
<1>a. UNCHANGED fixVars
  BY DEF WaitSource, Reap, WaitCode
<1>c. kind' = kind /\ limit' = limit /\ Sources' = Sources /\ Last' = Last /\ Stages' = Stages
  BY <1>a, KindStays
<1>1. StTypeOK'
  BY <1>c DEF StTypeOK, WaitSource, Reap, Proc, dataVars, outVars
<1>2. Handled'
  BY <1>c, KindCases DEF Handled, WaitSource, Reap, Started, Source, Proc, StTypeOK
<1>3. Belongings'
  BY DEF Belongings, WaitSource
<1>4. Conserved'
  BY <1>c DEF Conserved, WaitSource, dataVars, outVars
<1>5. ExitsTell'
  BY <1>c DEF ExitsTell, WaitSource, Reap, Gone, dataVars, Handled
<1>6. CopiedAll'
  BY <1>c DEF CopiedAll, WaitSource, Reap, Gone, dataVars, outVars
<1>7. Whole'
  BY <1>c DEF Whole, WaitSource, dataVars, outVars
<1> QED BY <1>1, <1>2, <1>3, <1>4, <1>5, <1>6, <1>7

LEMMA SettleInv ==
    ASSUME StInv, Settle
    PROVE  StInv'
<1> USE DEF StInv
<1>a. UNCHANGED fixVars
  BY DEF Settle, Return, MergeOutcome, SingleOutcome, MP3Outcome
<1>b. kind \in Kinds
  BY DEF StTypeOK
<1>c. kind' = kind /\ limit' = limit /\ Sources' = Sources /\ Last' = Last /\ Stages' = Stages
  BY <1>a, KindStays
<1>1. StTypeOK'
  BY <1>b, <1>c DEF StTypeOK, Settle, Return, MergeOutcome, SingleOutcome, MP3Outcome,
       procVars, dataVars, outVars
<1>2. Handled'
  BY <1>c DEF Handled, Settle, Return, procVars
<1>3. Belongings'
  BY DEF Belongings, Settle, Return
<1>4. Conserved'
  BY <1>c DEF Conserved, Settle, dataVars, outVars
<1>5. ExitsTell'
  BY <1>c DEF ExitsTell, Settle, Gone, procVars, dataVars
<1>6. CopiedAll'
  BY <1>c DEF CopiedAll, Settle, Gone, procVars, dataVars, outVars
<1>7. Whole'
  BY <1>c, KindCases DEF Whole, StTypeOK, Handled, Conserved, ExitsTell, CopiedAll, Settle,
       Return, MergeOutcome, SingleOutcome, MP3Outcome, Source, dataVars, outVars
<1> QED BY <1>1, <1>2, <1>3, <1>4, <1>5, <1>6, <1>7

LEMMA CrashInv ==
    ASSUME StInv, Crash
    PROVE  StInv'
<1> USE DEF StInv
<1>a. UNCHANGED fixVars
  BY DEF Crash
<1>b. kind \in Kinds
  BY DEF StTypeOK
<1>c. kind' = kind /\ limit' = limit /\ Sources' = Sources /\ Last' = Last /\ Stages' = Stages
  BY <1>a, KindStays
<1>1. StTypeOK'
  <2>1. 0 \in 0..(IF limit > 0 THEN limit ELSE 2 * Chunks)
    BY DEF StTypeOK
  <2>2. /\ proc' \in [Proc -> {"none", "running", "exited", "reaped"}]
        /\ code' \in [Proc -> {"ok", "failed", "killed"}]
        /\ sent' \in [Source -> 0..Chunks] /\ taken' \in [Source -> 0..Chunks]
        /\ tooLarge' \in [Source -> BOOLEAN]
    BY DEF Crash
  <2>3. /\ spc' = "crashed" /\ result' = "none" /\ ended' = TRUE /\ held' = FALSE
        /\ mem' = 0 /\ outq' = 0 /\ written' = 0 /\ copyErr' = "none"
        /\ want' = want /\ scratch' = scratch
    BY DEF Crash
  <2>4. written' \in 0..(IF limit' > 0 THEN limit' ELSE 2 * Chunks) /\ outq' \in 0..PipeCap
    BY <1>c, <2>1, <2>3
  <2>5. kind' \in Kinds /\ limit' \in Limits /\ want' \in Source
    BY <1>b, <1>c, <2>3 DEF StTypeOK
  <2>6. ended' \in BOOLEAN /\ held' \in BOOLEAN /\ scratch' \in BOOLEAN
    BY <2>3 DEF StTypeOK
  <2> QED BY <2>2, <2>3, <2>4, <2>5, <2>6 DEF StTypeOK
<1>2. Handled'
  BY DEF Handled, Crash
<1>3. Belongings'
  BY DEF Belongings, Crash
<1>4. Conserved'
  BY <1>c DEF Conserved, Crash, Source, StTypeOK
<1>5. ExitsTell'
  BY <1>b, <1>c, KindCases DEF ExitsTell, Crash, Gone
<1>6. CopiedAll'
  BY DEF CopiedAll, Crash
<1>7. Whole'
  BY DEF Whole, Crash
<1> QED BY <1>1, <1>2, <1>3, <1>4, <1>5, <1>6, <1>7

LEMMA RestartInv ==
    ASSUME StInv, Restart
    PROVE  StInv'
<1> USE DEF StInv
<1>a. UNCHANGED fixVars
  BY DEF Restart
<1>b. kind \in Kinds
  BY DEF StTypeOK
<1>c. kind' = kind /\ limit' = limit /\ Sources' = Sources /\ Last' = Last /\ Stages' = Stages
  BY <1>a, KindStays
<1>1. StTypeOK'
  BY <1>b, <1>c DEF StTypeOK, Restart, procVars, dataVars, outVars
<1>2. Handled'
  BY DEF Handled, Restart, procVars
<1>3. Belongings'
  BY DEF Belongings, Restart
<1>4. Conserved'
  BY <1>c DEF Conserved, Restart, dataVars, outVars
<1>5. ExitsTell'
  BY <1>c DEF ExitsTell, Restart, Gone, procVars, dataVars
<1>6. CopiedAll'
  BY DEF CopiedAll, Restart
<1>7. Whole'
  BY <1>c DEF Whole, Restart, dataVars, outVars
<1> QED BY <1>1, <1>2, <1>3, <1>4, <1>5, <1>6, <1>7

LEMMA StInitInv == StInit => StInv
<1> SUFFICES ASSUME StInit  PROVE StInv
  OBVIOUS
<1>1. kind \in Kinds
  BY DEF StInit
<1>2. StTypeOK
  <2>1. written \in 0..(IF limit > 0 THEN limit ELSE 2 * Chunks)
    BY DEF StInit
  <2>2. want \in Source
    BY <1>1, KindCases DEF StInit
  <2>3. held \in BOOLEAN /\ spc \in {"mkdir", "start"}
    BY DEF StInit
  <2>4. /\ proc \in [Proc -> {"none", "running", "exited", "reaped"}]
        /\ code \in [Proc -> {"ok", "failed", "killed"}]
        /\ sent \in [Source -> 0..Chunks] /\ taken \in [Source -> 0..Chunks]
        /\ tooLarge \in [Source -> BOOLEAN]
    BY DEF StInit
  <2>5. /\ kind \in Kinds /\ limit \in Limits /\ copyErr = "none" /\ result = "none"
    BY DEF StInit
  <2>6. ended \in BOOLEAN /\ scratch \in BOOLEAN
    BY DEF StInit
  <2>7. mem \in 0..1 /\ outq \in 0..PipeCap
    BY DEF StInit
  <2> QED BY <2>1, <2>2, <2>3, <2>4, <2>5, <2>6, <2>7 DEF StTypeOK
<1>3. Handled /\ Belongings
  BY <1>1, KindCases DEF StInit, Handled, Belongings, Proc, Source
<1>4. Conserved /\ ExitsTell /\ CopiedAll /\ Whole
  BY <1>1, KindCases DEF StInit, Conserved, ExitsTell, CopiedAll, Whole, Gone, Proc, Source
<1> QED BY <1>2, <1>3, <1>4 DEF StInv

LEMMA StNextInv == StInv /\ [StNext]_stVars => StInv'
<1> SUFFICES ASSUME StInv, [StNext]_stVars  PROVE StInv'
  OBVIOUS
<1>1. CASE HandlerStep
  BY <1>1, MakeScratchInv, AbortMergeInv, ClosePipesInv, SettleInv, CopyInv, CopyEndsInv,
     StartInv, FetchedInv, WaitLastInv, WaitSourceInv DEF HandlerStep
<1>2. CASE CopyClientGone \/ CtxDone \/ Crash \/ Restart
  BY <1>2, CopyEndsInv, CopyClientGoneInv, CtxDoneInv, CrashInv, RestartInv
<1>3. ASSUME NEW p \in Proc, StartFails(p) \/ KillGroup(p)  PROVE StInv'
  BY <1>3, StartFailsInv, KillInv
<1>4. ASSUME NEW s \in Source,
             YtWrite(s) \/ YtSkips(s) \/ YtExits(s) \/ YtFails(s) \/ YtBreaks(s)
      PROVE  StInv'
  BY <1>4, YtWriteInv, YtSkipsInv, YtExitsInv, YtFailsInv
<1>5. ASSUME NEW s \in Source, FfRead(s) \/ FfSeesEnd(s)  PROVE StInv'
  BY <1>5, FfReadInv, FfSeesEndInv
<1>6. CASE FfWrite \/ FfExits \/ FfNoStream \/ FfFails
  BY <1>6, FfWriteInv, FfExitsInv, FfFailsInv
<1>7. CASE UNCHANGED stVars
  <2>1. UNCHANGED fixVars
    BY <1>7 DEF stVars
  <2>2. Sources' = Sources /\ Last' = Last /\ Stages' = Stages
    BY <2>1, KindStays
  <2> QED BY <1>7, <2>2
             DEF stVars, fixVars, procVars, dataVars, outVars, StInv, StTypeOK, Handled,
                 Belongings, Conserved, ExitsTell, CopiedAll, Whole, Gone, Started
<1> QED BY <1>1, <1>2, <1>3, <1>4, <1>5, <1>6, <1>7 DEF StNext

LEMMA StInvariance == StSpec => []StInv
BY StInitInv, StNextInv, PTL DEF StSpec

-----------------------------------------------------------------------------
(* The theorems. *)

\* The handler, the processes and the pipes keep their types: no pipe holds more
\* than fits, and no more is written than the limit allows.
THEOREM StageTyped == StSpec => []StTypeOK
<1>1. StInv => StTypeOK
  BY DEF StInv
<1> QED BY <1>1, StInvariance, PTL

\* No child process, pipe or scratch directory outlives its stage, on whichever
\* of its returns, nor the crash of a server that has been started again.
THEOREM StageLeavesNothing == StSpec => []NothingLeftBehind
<1>1. StInv => NothingLeftBehind
  BY DEF StInv, Handled, Belongings, NothingLeftBehind
<1> QED BY <1>1, StInvariance, PTL

LEMMA SourcesCounted ==
    ASSUME kind \in Kinds
    PROVE  Cardinality(Sources) = IF kind = "merge" THEN 2 ELSE 1
<1>1. CASE kind = "merge"
  <2>1. Sources = {"video"} \cup {"audio"} /\ "audio" \notin {"video"}
    BY <1>1, KindCases DEF Source
  <2>2. IsFiniteSet({"video"}) /\ Cardinality({"video"}) = 1
    BY FS_Singleton
  <2>3. Cardinality({"video"} \cup {"audio"}) = 1 + 1
    BY <2>1, <2>2, FS_AddElement
  <2> QED BY <1>1, <2>1, <2>3
<1>2. CASE kind # "merge"
  <2>1. \E s : Sources = {s}
    BY <1>2, KindCases
  <2> QED BY <1>2, <2>1, FS_Singleton
<1> QED BY <1>1, <1>2

\* A stage without an error has delivered every chunk of every source: a yt-dlp
\* that died, was killed or skipped its download never passes for one that
\* ended, though ffmpeg takes the end of its pipe for the end of the stream.
THEOREM StageDeliversWhole == StSpec => []WholeFileOrError
<1>1. StInv => WholeFileOrError
  <2> SUFFICES ASSUME StInv, result = "nil"
               PROVE  /\ \A s \in Sources : sent[s] = Chunks
                      /\ written = Chunks * Cardinality(Sources)
    BY DEF WholeFileOrError
  <2>1. Cardinality(Sources) = IF kind = "merge" THEN 2 ELSE 1
    BY SourcesCounted DEF StInv, StTypeOK
  <2>2. /\ \A s \in Sources : sent[s] = Chunks
        /\ written = IF kind = "merge" THEN 2 * Chunks ELSE Chunks
    BY DEF StInv, Whole
  <2>3. CASE kind = "merge"
    BY <2>1, <2>2, <2>3
  <2>4. CASE kind # "merge"
    BY <2>1, <2>2, <2>4
  <2> QED BY <2>3, <2>4
<1> QED BY <1>1, StInvariance, PTL
=============================================================================
