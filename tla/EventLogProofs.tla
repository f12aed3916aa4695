---------------------------- MODULE EventLogProofs ----------------------------
(***************************************************************************)
(* Theorems about the log of a component (overcrow-logging): no line is    *)
(* lost before its time or shown twice, and no event is unaccounted for,   *)
(* for any sizes of the queue and the files, any number of archives, of    *)
(* lives of the process, and of failures.                                  *)
(*                                                                         *)
(* The files and the events are two halves that share nothing but where    *)
(* the worker is.  Each has its inductive invariant: FilesInv, EventsInv.  *)
(***************************************************************************)
EXTENDS EventLog, FiniteSetTheorems, TLAPS

------------------------------------------------------------------------------
(* The files: rotate_files, the writes, and a reader in between.           *)

\* The g-th generation, the log file itself being the 0th.
Gen(g) == IF g = 0 THEN file ELSE archives[g]
Generations == 0..ARCHIVE_COUNT

Increasing(s) == \A j, k \in DOMAIN s : j < k => s[j] < s[k]
Elements(s) == {s[k] : k \in DOMAIN s}

FilesShape ==
    /\ file \in Seq(Nat) /\ archives \in [1..ARCHIVE_COUNT -> Seq(Nat)] /\ serial \in Nat
    /\ rotation \in -2..ARCHIVE_COUNT
    /\ reader.at \in -1..ARCHIVE_COUNT /\ reader.lines \in Seq(Nat)
    /\ process = "down" => worker.pc = "ended"

\* While a rotation goes on, the archive that is written next is free; after it the
\* file is there again.
RotationMakesRoom ==
    /\ rotation \in 0..ARCHIVE_COUNT - 1 => archives[rotation + 1] = Gone
    /\ process # "down" /\ sink = "file" /\ rotation = NotRotating => file # Gone

\* Older generations have older lines, and what was read is older than what follows.
LinesAreOrdered ==
    /\ \A g \in Generations : Increasing(Lines(Gen(g)))
    /\ \A g, h \in Generations : g < h =>
         \A x \in Numbers(Gen(h)), y \in Numbers(Gen(g)) : x < y
    /\ \A g \in Generations : \A x \in Numbers(Gen(g)) : x <= serial
ReadingIsOrdered ==
    /\ Increasing(reader.lines)
    /\ \A x \in Elements(reader.lines) : x <= serial
    /\ \A g \in 0..reader.at : \A x \in Elements(reader.lines), y \in Numbers(Gen(g)) : x < y

FilesInv == FilesShape /\ RotationMakesRoom /\ LinesAreOrdered /\ ReadingIsOrdered

\* Lines and numbers of a file.
LEMMA LinesFacts ==
    /\ \A f : Lines(Lines(f)) = Lines(f) /\ Lines(f) # Gone
    /\ Lines(Gone) = <<>> /\ Numbers(Gone) = {}
    /\ \A f, e : Lines(f) = Lines(e) => Numbers(f) = Numbers(e)
    /\ \A f \in Seq(Nat) : Lines(f) \in Seq(Nat)
    /\ \A f : Numbers(f) = Elements(Lines(f))
  <1>1. <<>> # Gone
    BY DEF Gone
  <1>2. \A f : Lines(Lines(f)) = Lines(f) /\ Lines(f) # Gone
    BY <1>1, Zenon DEF Lines
  <1>3. Lines(Gone) = <<>>
    BY Zenon DEF Lines
  <1>4. Numbers(Gone) = {}
    BY <1>3 DEF Numbers
  <1>5. \A f, e : Lines(f) = Lines(e) => Numbers(f) = Numbers(e)
    BY Zenon DEF Numbers
  <1>6. \A f \in Seq(Nat) : Lines(f) \in Seq(Nat)
    BY DEF Lines
  <1>7. \A f : Numbers(f) = Elements(Lines(f))
    BY Zenon DEF Numbers, Elements
  <1> QED
    BY <1>2, <1>3, <1>4, <1>5, <1>6, <1>7, Zenon

\* Where the lines of a generation may come from: they stay, or are those of the younger
\* one, which is then empty, or there are none.
Kept(g) ==
    \/ Lines(Gen(g))' = <<>>
    \/ Lines(Gen(g))' = Lines(Gen(g))
    \/ \E h \in Generations :
         h + 1 = g /\ Lines(Gen(g))' = Lines(Gen(h)) /\ Lines(Gen(h))' = <<>>

\* Moving lines to older generations keeps the order, for a reader too.
LEMMA FilesShift ==
    ASSUME ARCHIVE_COUNT \in Nat \ {0}, FilesInv, serial' = serial,
           reader' = reader, \A g \in Generations : Kept(g)
    PROVE  LinesAreOrdered' /\ ReadingIsOrdered'
  <1>1. Elements(<<>>) = {} /\ Increasing(<<>>)
    BY DEF Elements, Increasing
  <1>2. ASSUME NEW g \in Generations
        PROVE  /\ Increasing(Lines(Gen(g))')
               /\ \A y \in Numbers(Gen(g))' : \E h \in {g, g - 1} \cap Generations :
                    /\ y \in Numbers(Gen(h))
                    /\ h = g - 1 => Numbers(Gen(g - 1))' = {}
    <2>1. CASE Lines(Gen(g))' = <<>>
      BY <1>1, <2>1, LinesFacts, Zenon DEF Numbers, Elements
    <2>2. CASE Lines(Gen(g))' = Lines(Gen(g))
      <3>1. Numbers(Gen(g))' = Numbers(Gen(g)) /\ g # g - 1
        BY <2>2 DEF Numbers, Generations
      <3> QED
        BY <2>2, <3>1, Zenon DEF FilesInv, LinesAreOrdered
    <2>3. ASSUME NEW h \in Generations, h + 1 = g,
                 Lines(Gen(g))' = Lines(Gen(h)), Lines(Gen(h))' = <<>>
          PROVE  /\ Increasing(Lines(Gen(g))')
                 /\ \A y \in Numbers(Gen(g))' : \E i \in {g, g - 1} \cap Generations :
                      /\ y \in Numbers(Gen(i))
                      /\ i = g - 1 => Numbers(Gen(g - 1))' = {}
      <3>1. h = g - 1
        BY <2>3 DEF Generations
      <3>2. Numbers(Gen(g))' = Numbers(Gen(h)) /\ Numbers(Gen(h))' = {}
        BY <2>3 DEF Numbers
      <3> QED
        BY <2>3, <3>1, <3>2, Zenon DEF FilesInv, LinesAreOrdered
    <2> QED
      BY <2>1, <2>2, <2>3, Zenon DEF Kept
  <1>3. ASSUME NEW g \in Generations, NEW h \in Generations, g < h,
               NEW x \in Numbers(Gen(h))', NEW y \in Numbers(Gen(g))'
        PROVE  x < y
    <2>1. PICK i \in {h, h - 1} \cap Generations :
            x \in Numbers(Gen(i)) /\ (i = h - 1 => Numbers(Gen(h - 1))' = {})
      BY <1>2, Zenon
    <2>2. PICK j \in {g, g - 1} \cap Generations : y \in Numbers(Gen(j))
      BY <1>2, Zenon
    <2>3. ~(i = h - 1 /\ g = h - 1)
      BY <2>1
    <2>4. j < i
      BY <1>3, <2>3 DEF Generations
    <2> QED
      BY <2>1, <2>2, <2>4, Zenon DEF FilesInv, LinesAreOrdered
  <1>4. \A g \in Generations : \A x \in Numbers(Gen(g))' : x <= serial
    BY <1>2, Zenon DEF FilesInv, LinesAreOrdered
  <1>5. ASSUME NEW g \in 0..reader.at, NEW x \in Elements(reader.lines),
               NEW y \in Numbers(Gen(g))'
        PROVE  x < y
    <2>1. g \in Generations /\ g - 1 <= reader.at /\ g <= reader.at
      BY DEF FilesInv, FilesShape, Generations
    <2>2. PICK j \in {g, g - 1} \cap Generations : y \in Numbers(Gen(j))
      BY <1>2, <2>1, Zenon
    <2>3. j \in 0..reader.at
      BY <2>1 DEF Generations
    <2> QED
      BY <2>2, <2>3, Zenon DEF FilesInv, ReadingIsOrdered
  <1>6. LinesAreOrdered'
    BY <1>2, <1>3, <1>4, Zenon DEF LinesAreOrdered, Generations
  <1>7. ReadingIsOrdered'
    BY <1>5, Zenon DEF FilesInv, ReadingIsOrdered
  <1> QED
    BY <1>6, <1>7

\* What the files hold is what the generations hold.
LEMMA HeldByGenerations ==
    ASSUME ARCHIVE_COUNT \in Nat \ {0}
    PROVE  /\ \A n : n \in Held <=> \E g \in Generations : n \in Numbers(Gen(g))
           /\ \A n : n \in Held' <=> \E g \in Generations : n \in Numbers(Gen(g))'
  <1>1. Generations = {0} \cup 1..ARCHIVE_COUNT /\ \A g \in 1..ARCHIVE_COUNT : g # 0
    BY DEF Generations
  <1>2. /\ Gen(0) = file /\ \A g \in 1..ARCHIVE_COUNT : Gen(g) = archives[g]
        /\ Gen(0)' = file' /\ \A g \in 1..ARCHIVE_COUNT : Gen(g)' = archives'[g]
    BY <1>1, Zenon DEF Gen
  <1>3. ASSUME NEW n PROVE n \in Held <=> \E g \in Generations : n \in Numbers(Gen(g))
    BY <1>1, <1>2, Zenon DEF Held
  <1>4. /\ Numbers(file)' = Numbers(Gen(0))'
        /\ \A g \in 1..ARCHIVE_COUNT : Numbers(archives[g])' = Numbers(Gen(g))'
    BY <1>2, Zenon DEF Numbers, Lines
  <1>5. ASSUME NEW n PROVE n \in Held' <=> \E g \in Generations : n \in Numbers(Gen(g))'
    BY <1>1, <1>4, Zenon DEF Held
  <1> QED
    BY <1>3, <1>5, Zenon

\* What one step of rotate_files leaves: lines moved between generations, none of them
\* lost, and room for the next step.
Rotated ==
    /\ file' \in Seq(Nat) /\ archives' \in [1..ARCHIVE_COUNT -> Seq(Nat)]
    /\ \A g \in Generations : Kept(g)
    /\ \A g \in Generations : g # ARCHIVE_COUNT =>
         \/ Lines(Gen(g)) \in {<<>>, Lines(Gen(g))'}
         \/ Lines(Gen(g + 1))' = Lines(Gen(g))
    /\ rotation \in 1..ARCHIVE_COUNT => archives'[rotation] = Gone
    /\ rotation = -1 => file' # Gone

LEMMA RotationShifts ==
    ASSUME ARCHIVE_COUNT \in Nat \ {0}, FilesInv, rotation # NotRotating,
           file' = RotateFiles(rotation)[1], archives' = RotateFiles(rotation)[2]
    PROVE  Rotated
  <1>1. /\ rotation \in -1..ARCHIVE_COUNT /\ file \in Seq(Nat)
        /\ archives \in [1..ARCHIVE_COUNT -> Seq(Nat)] /\ Gone \in Seq(Nat)
    BY DEF FilesInv, FilesShape, NotRotating, Gone
  <1>2. CASE rotation = ARCHIVE_COUNT
    <2>1. file' = file /\ archives' = [archives EXCEPT ![ARCHIVE_COUNT] = Gone]
      BY <1>2 DEF RotateFiles
    <2>2. \A g \in Generations : g # ARCHIVE_COUNT => Gen(g)' = Gen(g)
      BY <1>1, <2>1 DEF Gen, Generations
    <2>3. Gen(ARCHIVE_COUNT)' = Gone /\ archives'[ARCHIVE_COUNT] = Gone
      BY <1>1, <2>1 DEF Gen
    <2>4. Lines(Gen(ARCHIVE_COUNT))' = <<>>
      BY <2>3, LinesFacts, Zenon
    <2>5. \A g \in Generations : g # ARCHIVE_COUNT => Lines(Gen(g))' = Lines(Gen(g))
      BY <2>2, Zenon DEF Lines
    <2>6. rotation # -1 /\ ARCHIVE_COUNT \in 1..ARCHIVE_COUNT
      BY <1>2
    <2>7. archives' \in [1..ARCHIVE_COUNT -> Seq(Nat)]
      BY <1>1, <2>1, Zenon
    <2> QED
      BY <1>1, <1>2, <2>1, <2>3, <2>4, <2>5, <2>6, <2>7, Zenon DEF Kept, Rotated
  <1>3. CASE rotation \in 1..ARCHIVE_COUNT - 1 /\ archives[rotation] = Gone
    <2>1. file' = file /\ archives' = archives
      BY <1>3 DEF RotateFiles
    <2>2. \A g \in Generations : Gen(g)' = Gen(g)
      BY <2>1, Zenon DEF Gen
    <2>3. \A g \in Generations : Lines(Gen(g))' = Lines(Gen(g))
      BY <2>2, Zenon DEF Lines
    <2>4. rotation # -1
      BY <1>3
    <2> QED
      BY <1>1, <1>3, <2>1, <2>3, <2>4, Zenon DEF Kept, Rotated
  <1>4. ASSUME NEW r, r = rotation, r \in 1..ARCHIVE_COUNT - 1, archives[r] # Gone
        PROVE  Rotated
    <2>1. /\ file' = file
          /\ archives' = [archives EXCEPT ![r + 1] = archives[r],
                                          ![r] = Gone]
      BY <1>4 DEF RotateFiles
    <2>2. /\ r \in Generations /\ r + 1 \in Generations
          /\ r + 1 > 0 /\ r + 1 - 1 = r /\ r # -1
      BY <1>4 DEF Generations
    <2>3. PICK a : a = [archives EXCEPT ![r + 1] = archives[r]]
      BY Zenon
    <2>4. archives' = [a EXCEPT ![r] = Gone]
      BY <2>1, <2>3, Zenon
    <2>5. r \in 1..ARCHIVE_COUNT /\ r + 1 \in 1..ARCHIVE_COUNT
          /\ r + 1 # r /\ r # 0 /\ r + 1 # 0
      BY <1>4
    <2>6. a \in [1..ARCHIVE_COUNT -> Seq(Nat)]
      BY <1>1, <2>3, <2>5, Zenon
    <2>7. archives' \in [1..ARCHIVE_COUNT -> Seq(Nat)]
      BY <1>1, <2>4, <2>5, <2>6, Zenon
    <2>8. /\ archives'[r] = Gone /\ archives'[r + 1] = archives[r]
          /\ \A g \in 1..ARCHIVE_COUNT \ {r, r + 1} : archives'[g] = archives[g]
      BY <1>1, <2>3, <2>4, <2>5, <2>6, Zenon
    <2>9. Lines(Gen(r))' = <<>> /\ Lines(Gen(r + 1))' = Lines(Gen(r))
      <3>1. /\ Gen(r)' = Gone /\ Gen(r + 1)' = Gen(r)
        BY <2>5, <2>8, Zenon DEF Gen
      <3> QED
        BY <3>1, LinesFacts, Zenon DEF Lines
    <2>10. ASSUME NEW g \in Generations, g \notin {r, r + 1}
           PROVE  Lines(Gen(g))' = Lines(Gen(g))
      <3>1. g = 0 \/ g \in 1..ARCHIVE_COUNT \ {r, r + 1}
        BY <2>10 DEF Generations
      <3>2. Gen(g)' = Gen(g)
        BY <2>1, <2>8, <3>1, Zenon DEF Gen
      <3> QED
        BY <3>2, Zenon DEF Lines
    <2>11. Lines(Gen(r + 1)) = <<>>
      <3>1. Gen(r + 1) = Gone
        BY <1>4, <2>2 DEF Gen, FilesInv, RotationMakesRoom
      <3> QED
        BY <3>1, LinesFacts, Zenon
    <2>12. Kept(r) /\ Kept(r + 1)
      BY <2>2, <2>9 DEF Kept
    <2>13. \A g \in Generations : Kept(g)
      BY <2>10, <2>12, Zenon DEF Kept
    <2>14. \A g \in Generations :
             \/ Lines(Gen(g)) \in {<<>>, Lines(Gen(g))'}
             \/ Lines(Gen(g + 1))' = Lines(Gen(g))
      BY <2>9, <2>10, <2>11, Zenon
    <2> QED
      BY <1>1, <1>4, <2>1, <2>2, <2>7, <2>8, <2>13, <2>14, Zenon DEF Rotated
  <1>5. CASE rotation = 0
    <2>1. /\ file' = Gone
          /\ archives' = IF file = Gone THEN archives ELSE [archives EXCEPT ![1] = file]
      BY <1>5 DEF RotateFiles
    <2>2. 1 \in 1..ARCHIVE_COUNT /\ 1 \in Generations /\ 0 \in Generations
          /\ 1 # 0 /\ 1 > 0 /\ 1 - 1 = 0 /\ 0 + 1 = 1 /\ 0 # -1 /\ 0 \notin 1..ARCHIVE_COUNT
      BY DEF Generations
    <2>3. archives' \in [1..ARCHIVE_COUNT -> Seq(Nat)]
      BY <1>1, <2>1, <2>2, Zenon
    <2>4. archives[1] = Gone
      BY <1>5, <2>2 DEF FilesInv, RotationMakesRoom
    <2>5. /\ archives'[1] = file
          /\ \A g \in 1..ARCHIVE_COUNT \ {1} : archives'[g] = archives[g]
      BY <1>1, <2>1, <2>2, <2>4, Zenon
    <2>6. /\ Gen(0)' = Gone /\ Gen(1)' = Gen(0) /\ Gen(1) = Gone
      BY <2>1, <2>2, <2>4, <2>5, Zenon DEF Gen
    <2>7. Lines(Gen(0))' = <<>> /\ Lines(Gen(1))' = Lines(Gen(0)) /\ Lines(Gen(1)) = <<>>
      BY <2>6, LinesFacts, Zenon DEF Lines
    <2>8. ASSUME NEW g \in Generations, g \notin {0, 1}
          PROVE  Lines(Gen(g))' = Lines(Gen(g))
      <3>1. g \in 1..ARCHIVE_COUNT \ {1} /\ g # 0
        BY <2>8 DEF Generations
      <3>2. Gen(g)' = Gen(g)
        BY <2>5, <3>1, Zenon DEF Gen
      <3> QED
        BY <3>2, Zenon DEF Lines
    <2>9. Kept(0) /\ Kept(1)
      BY <2>2, <2>7, Zenon DEF Kept
    <2>10. \A g \in Generations : Kept(g)
      BY <2>8, <2>9, Zenon DEF Kept
    <2>11. \A g \in Generations :
             \/ Lines(Gen(g)) \in {<<>>, Lines(Gen(g))'}
             \/ Lines(Gen(g + 1))' = Lines(Gen(g))
      BY <2>2, <2>7, <2>8, Zenon
    <2> QED
      BY <1>1, <1>5, <2>1, <2>2, <2>3, <2>10, <2>11, Zenon DEF Rotated
  <1>6. CASE rotation = -1
    <2>1. file' = Lines(file) /\ archives' = archives
      BY <1>6 DEF RotateFiles, OpenLogFile
    <2>2. \A g \in Generations : Gen(g)' = IF g = 0 THEN Lines(file) ELSE Gen(g)
      BY <2>1, Zenon DEF Gen
    <2>3. \A g \in Generations : Lines(Gen(g))' = Lines(Gen(g))
      BY <2>2, LinesFacts, Zenon DEF Gen, Lines
    <2>4. -1 \notin 1..ARCHIVE_COUNT
      OBVIOUS
    <2> QED
      BY <1>1, <1>6, <2>1, <2>3, <2>4, LinesFacts, Zenon DEF Kept, Rotated
  <1>7. \/ rotation = ARCHIVE_COUNT \/ rotation \in 1..ARCHIVE_COUNT - 1
        \/ rotation = 0 \/ rotation = -1
    BY <1>1
  <1> QED
    BY <1>2, <1>3, <1>4, <1>5, <1>6, <1>7, Zenon

\* A step that leaves the lines where they are.
LEMMA FilesStand ==
    ASSUME ARCHIVE_COUNT \in Nat \ {0}, FilesInv, UNCHANGED <<archives, serial>>,
           Lines(file)' = Lines(file)
    PROVE  /\ LinesAreOrdered' /\ LosesOnlyTheOldest
           /\ \A g \in Generations : Numbers(Gen(g))' = Numbers(Gen(g))
  <1>1. ASSUME NEW g \in Generations PROVE Lines(Gen(g))' = Lines(Gen(g))
    <2>1. CASE g = 0
      BY <2>1, Zenon DEF Gen, Lines
    <2>2. CASE g # 0
      BY <2>2, Zenon DEF Gen, Lines
    <2> QED
      BY <2>1, <2>2
  <1>2. \A g \in Generations : Numbers(Gen(g))' = Numbers(Gen(g))
    BY <1>1, Zenon DEF Numbers
  <1>3. LinesAreOrdered'
    <2>1. \A g \in Generations : Increasing(Lines(Gen(g)))'
      BY <1>1, Zenon DEF Increasing, FilesInv, LinesAreOrdered
    <2> QED
      BY <1>2, <2>1, Zenon DEF FilesInv, LinesAreOrdered, Generations
  <1>4. \A n : n \in Held => n \in Held'
    BY <1>2, HeldByGenerations, Zenon
  <1> QED
    BY <1>2, <1>3, <1>4, Zenon DEF LosesOnlyTheOldest

\* The same, when nobody reads.
LEMMA FilesUnchanged ==
    ASSUME ARCHIVE_COUNT \in Nat \ {0}, FilesInv, UNCHANGED <<archives, serial, reader>>,
           Lines(file)' = Lines(file)
    PROVE  LinesAreOrdered' /\ ReadingIsOrdered' /\ LosesOnlyTheOldest
  <1>1. /\ LinesAreOrdered' /\ LosesOnlyTheOldest
        /\ \A g \in Generations : Numbers(Gen(g))' = Numbers(Gen(g))
    BY FilesStand, Zenon
  <1>2. 0..reader.at \subseteq Generations
    BY DEF Generations, FilesInv, FilesShape
  <1> QED
    BY <1>1, <1>2, Zenon DEF FilesInv, ReadingIsOrdered

LEMMA FilesRotate ==
    ASSUME ARCHIVE_COUNT \in Nat \ {0}, FilesInv, RotateStep
    PROVE  FilesInv' /\ LosesOnlyTheOldest
  <1>1. /\ rotation # NotRotating /\ rotation \in -2..ARCHIVE_COUNT
        /\ UNCHANGED <<process, reader, worker, serial>>
    BY Zenon DEF RotateStep, WorkerStays, FilesInv, FilesShape
  <1>2. CASE /\ UNCHANGED <<file, archives>> /\ rotation' = NotRotating /\ sink' = "stderr"
    <2>1. FilesShape'
      BY <1>1, <1>2 DEF FilesInv, FilesShape, NotRotating
    <2>2. NotRotating \notin 0..ARCHIVE_COUNT - 1
      BY DEF NotRotating
    <2>3. RotationMakesRoom'
      BY <1>2, <2>2, Zenon DEF RotationMakesRoom
    <2> QED
      BY <1>1, <1>2, <2>1, <2>3, FilesUnchanged, Zenon DEF FilesInv, Lines
  <1>3. CASE /\ file' = RotateFiles(rotation)[1] /\ archives' = RotateFiles(rotation)[2]
             /\ rotation' = rotation - 1 /\ sink' = sink
    <2>1. Rotated
      BY <1>1, <1>3, RotationShifts, Zenon
    <2>2. rotation' \in -2..ARCHIVE_COUNT
      BY <1>1, <1>3 DEF NotRotating
    <2>3. FilesShape'
      BY <1>1, <2>1, <2>2, Zenon DEF FilesInv, FilesShape, Rotated
    <2>4. RotationMakesRoom'
      <3>1. rotation' \in 0..ARCHIVE_COUNT - 1 =>
              rotation \in 1..ARCHIVE_COUNT /\ rotation' + 1 = rotation
        BY <1>1, <1>3
      <3>2. rotation' = NotRotating => rotation = -1
        BY <1>1, <1>3 DEF NotRotating
      <3> QED
        BY <2>1, <3>1, <3>2, Zenon DEF RotationMakesRoom, Rotated
    <2>5. LinesAreOrdered' /\ ReadingIsOrdered'
      BY <1>1, <2>1, FilesShift, Zenon DEF Rotated
    <2>6. ASSUME NEW x \in Held, x \notin Held' PROVE x \in Numbers(archives[ARCHIVE_COUNT])
      <3>1. PICK g \in Generations : x \in Numbers(Gen(g))
        BY HeldByGenerations, Zenon
      <3>2. CASE g = ARCHIVE_COUNT
        BY <3>1, <3>2, Zenon DEF Gen
      <3>3. CASE g # ARCHIVE_COUNT
        <4>1. g + 1 \in Generations
          BY <3>3 DEF Generations
        <4>2. x \in Elements(Lines(Gen(g))) /\ Elements(<<>>) = {}
          BY <3>1, LinesFacts, ZenonT(30) DEF Elements
        <4>3. x \in Elements(Lines(Gen(g))') \/ x \in Elements(Lines(Gen(g + 1))')
          BY <2>1, <3>3, <4>2, Zenon DEF Rotated
        <4>4. x \in Numbers(Gen(g))' \/ x \in Numbers(Gen(g + 1))'
          BY <4>3, Zenon DEF Numbers, Elements
        <4> QED
          BY <2>6, <4>1, <4>4, HeldByGenerations, Zenon
      <3> QED
        BY <3>2, <3>3
    <2> QED
      BY <2>3, <2>4, <2>5, <2>6, Zenon DEF FilesInv, LosesOnlyTheOldest
  <1> QED
    BY <1>2, <1>3, Zenon DEF RotateStep

\* FileSink::write appends the newest line.
LEMMA FilesWrite ==
    ASSUME ARCHIVE_COUNT \in Nat \ {0}, FilesInv, WriteFile
    PROVE  FilesInv' /\ LosesOnlyTheOldest
  <1>1. /\ worker.pc # "ended" /\ rotation = NotRotating /\ sink = "file"
        /\ UNCHANGED <<process, reader, rotation, archives>>
        /\ sink' \in {"file", "stderr"}
    BY DEF WriteFile, Writing, WorkerStays
  <1>2. \/ UNCHANGED <<file, serial>>
        \/ file' = Append(file, serial + 1) /\ serial' = serial + 1
    BY Zenon DEF WriteFile
  <1>3. /\ file \in Seq(Nat) /\ serial \in Nat /\ process # "down" /\ file # Gone
    BY <1>1, Zenon DEF FilesInv, FilesShape, RotationMakesRoom
  <1>4. NotRotating \notin 0..ARCHIVE_COUNT - 1
    BY DEF NotRotating
  <1>5. CASE UNCHANGED <<file, serial>>
    <2>1. FilesShape' /\ RotationMakesRoom'
      BY <1>1, <1>3, <1>4, <1>5, Zenon DEF FilesInv, FilesShape, RotationMakesRoom
    <2> QED
      BY <1>1, <1>5, <2>1, FilesUnchanged, Zenon DEF FilesInv, Lines
  <1>6. CASE file' = Append(file, serial + 1) /\ serial' = serial + 1
    <2>1. /\ file' \in Seq(Nat) /\ serial' \in Nat /\ serial < serial'
          /\ DOMAIN file = 1..Len(file) /\ DOMAIN file' = 1..Len(file) + 1
          /\ \A k \in 1..Len(file) : file'[k] = file[k]
          /\ file'[Len(file) + 1] = serial' /\ Len(file) \in Nat
      BY <1>3, <1>6
    <2>2. /\ \A k \in DOMAIN file' : k \in DOMAIN file \/ k = Len(file) + 1
          /\ DOMAIN file \subseteq DOMAIN file' /\ Len(file) + 1 \in DOMAIN file'
          /\ \A j, k \in DOMAIN file' : j < k => j \in DOMAIN file
      BY <2>1
    <2>3. file' # Gone
      <3>1. \A k \in DOMAIN Gone : Gone[k] = 0
        BY DEF Gone
      <3>2. serial' # 0
        BY <1>3, <1>6
      <3> QED
        BY <2>1, <2>2, <3>1, <3>2, Zenon
    <2>4. FilesShape' /\ RotationMakesRoom'
      BY <1>1, <1>3, <1>4, <2>1, <2>3, Zenon DEF FilesInv, FilesShape, RotationMakesRoom
    <2>5. 0 \in Generations /\ Gen(0) = file /\ Gen(0)' = file'
      BY DEF Generations, Gen
    <2>6. Lines(Gen(0)) = file /\ Lines(Gen(0))' = file'
      BY <1>3, <2>3, <2>5, Zenon DEF Lines
    <2>7. \A y \in Numbers(Gen(0))' : y \in Numbers(Gen(0)) \/ y = serial'
      BY <2>1, <2>2, <2>6, Zenon DEF Numbers
    <2>8. \A y \in Numbers(Gen(0)) : y \in Numbers(Gen(0))'
      BY <2>1, <2>2, <2>6, Zenon DEF Numbers
    <2>9. \A g \in Generations : g # 0 => Gen(g)' = Gen(g)
      BY <1>1, Zenon DEF Gen
    <2>10. \A g \in Generations : g # 0 =>
             Numbers(Gen(g))' = Numbers(Gen(g)) /\ Lines(Gen(g))' = Lines(Gen(g))
      BY <2>9, Zenon DEF Numbers, Lines
    <2>11. \A g \in Generations : Numbers(Gen(g)) \subseteq Nat
      <3>1. \A f \in Seq(Nat) : Numbers(f) \subseteq Nat
        <4>1. ASSUME NEW f \in Seq(Nat), NEW x \in Numbers(f) PROVE x \in Nat
          <5>1. Lines(f) \in Seq(Nat)
            BY LinesFacts, Zenon
          <5>2. PICK k \in DOMAIN Lines(f) : x = Lines(f)[k]
            BY <4>1, Zenon DEF Numbers
          <5> QED
            BY <5>1, <5>2
        <4> QED
          BY <4>1, Zenon
      <3>2. \A g \in Generations : g = 0 \/ g \in 1..ARCHIVE_COUNT
        BY DEF Generations
      <3> QED
        BY <3>1, <3>2, Zenon DEF Gen, FilesInv, FilesShape
    <2>12. \A g \in Generations : \A x \in Numbers(Gen(g)) : x < serial'
      <3>1. \A x \in Nat : x <= serial => x < serial'
        BY <1>3, <1>6
      <3> QED
        BY <2>11, <3>1, Zenon DEF FilesInv, LinesAreOrdered
    <2>13. \A g \in Generations : Increasing(Lines(Gen(g)))'
      <3>1. Increasing(file)
        BY <2>5, <2>6, Zenon DEF FilesInv, LinesAreOrdered
      <3>2. ASSUME NEW j \in DOMAIN file', NEW k \in DOMAIN file', j < k
            PROVE  file'[j] < file'[k]
        <4>1. CASE k \in DOMAIN file
          <5>1. j \in DOMAIN file
            BY <2>2, <3>2, Zenon
          <5>2. file'[j] = file[j] /\ file'[k] = file[k]
            BY <2>1, <4>1, <5>1, Zenon
          <5>3. file[j] < file[k]
            BY <3>1, <3>2, <4>1, <5>1, Zenon DEF Increasing
          <5> QED
            BY <5>2, <5>3, Zenon
        <4>2. CASE k = Len(file) + 1
          <5>1. file'[j] = file[j] /\ file[j] \in Numbers(Gen(0))
            BY <2>1, <2>2, <2>6, <3>2, Zenon DEF Numbers
          <5> QED
            BY <2>1, <2>5, <2>12, <4>2, <5>1, Zenon
        <4> QED
          BY <2>2, <4>1, <4>2, Zenon
      <3>3. Increasing(Lines(Gen(0)))'
        BY <2>6, <3>2, Zenon DEF Increasing
      <3>4. \A g \in Generations : g # 0 => Increasing(Lines(Gen(g)))'
        BY <2>10, Zenon DEF FilesInv, LinesAreOrdered, Increasing
      <3> QED
        BY <3>3, <3>4, Zenon
    <2>14. ASSUME NEW g \in Generations, NEW h \in Generations, g < h,
                  NEW x \in Numbers(Gen(h))', NEW y \in Numbers(Gen(g))'
           PROVE  x < y
      <3>1. h # 0
        BY <2>14 DEF Generations
      <3>2. x \in Numbers(Gen(h))
        BY <2>10, <3>1, Zenon
      <3>3. CASE y \in Numbers(Gen(g))
        BY <2>14, <3>2, <3>3, Zenon DEF FilesInv, LinesAreOrdered
      <3>4. CASE y = serial'
        BY <2>12, <3>2, <3>4, Zenon
      <3> QED
        BY <2>7, <2>10, <3>3, <3>4, Zenon
    <2>15. \A g \in Generations : \A x \in Numbers(Gen(g))' : x <= serial'
      <3>1. \A x \in Nat : x < serial' => x <= serial'
        BY <2>1
      <3>2. serial' <= serial'
        BY <2>1
      <3> QED
        BY <2>7, <2>10, <2>11, <2>12, <3>1, <3>2, Zenon
    <2>16. LinesAreOrdered'
      BY <2>13, <2>14, <2>15, Zenon DEF LinesAreOrdered, Generations
    <2>17. ReadingIsOrdered'
      <3>1. reader.lines \in Seq(Nat) /\ reader.at \in -1..ARCHIVE_COUNT
        BY Zenon DEF FilesInv, FilesShape
      <3>2. \A x \in Elements(reader.lines) : x \in Nat
        BY <3>1 DEF Elements
      <3>3. \A x \in Elements(reader.lines) : x < serial' /\ x <= serial'
        <4>1. \A x \in Nat : x <= serial => x < serial' /\ x <= serial'
          BY <1>3, <1>6
        <4> QED
          BY <3>2, <4>1, Zenon DEF FilesInv, ReadingIsOrdered
      <3>4. 0..reader.at \subseteq Generations
        BY <3>1 DEF Generations
      <3>5. \A g \in 0..reader.at : \A x \in Elements(reader.lines), y \in Numbers(Gen(g))' : x < y
        BY <2>7, <2>10, <3>3, <3>4, Zenon DEF FilesInv, ReadingIsOrdered
      <3> QED
        BY <1>1, <3>3, <3>5, Zenon DEF FilesInv, ReadingIsOrdered
    <2>18. \A n : n \in Held => n \in Held'
      BY <2>8, <2>10, HeldByGenerations, Zenon
    <2> QED
      BY <2>4, <2>16, <2>17, <2>18, Zenon DEF FilesInv, LosesOnlyTheOldest
  <1> QED
    BY <1>2, <1>5, <1>6

\* read_recent_logs_in takes the next younger generation.
LEMMA FilesRead ==
    ASSUME ARCHIVE_COUNT \in Nat \ {0}, FilesInv, ReadSafeLines
    PROVE  ReadingIsOrdered' /\ reader'.at \in -1..ARCHIVE_COUNT /\ reader'.lines \in Seq(Nat)
  <1> DEFINE at == reader.at
             old == reader.lines
             add == Lines(Gen(at))
  <1>1. /\ reader' = [at |-> at - 1, lines |-> old \o add] /\ at >= 0
        /\ UNCHANGED <<file, archives, serial>>
    BY Zenon DEF ReadSafeLines, Generation, Gen, FilesStay
  <1>2. /\ reader'.at = at - 1 /\ reader'.lines = old \o add
    BY Zenon, <1>1
  <1>3. at \in -1..ARCHIVE_COUNT /\ old \in Seq(Nat)
    BY Zenon DEF FilesInv, FilesShape
  <1>4. /\ at \in Generations /\ at \in 0..at /\ 0..at - 1 \subseteq 0..at
        /\ 0..at \subseteq Generations /\ at - 1 \in -1..ARCHIVE_COUNT
        /\ \A g \in 0..at - 1 : g < at
    BY <1>1, <1>3 DEF Generations
  <1>5. add \in Seq(Nat)
    <2>1. at = 0 \/ at \in 1..ARCHIVE_COUNT
      BY <1>4 DEF Generations
    <2>2. Gen(at) \in Seq(Nat)
      BY <2>1, Zenon DEF Gen, FilesInv, FilesShape
    <2> QED
      BY <2>2, LinesFacts, Zenon
  <1>6. Elements(add) = Numbers(Gen(at))
    BY LinesFacts, Zenon
  <1>7. Increasing(old) /\ Increasing(add)
    BY <1>4, Zenon DEF FilesInv, LinesAreOrdered, ReadingIsOrdered
  <1>8. \A x \in Elements(old), y \in Elements(add) : x < y
    BY <1>4, <1>6, Zenon DEF FilesInv, ReadingIsOrdered
  <1> HIDE DEF at, old, add
  <1>9. /\ old \o add \in Seq(Nat)
        /\ \A k \in DOMAIN (old \o add) :
             \/ k \in DOMAIN old /\ (old \o add)[k] = old[k]
             \/ k - Len(old) \in DOMAIN add /\ (old \o add)[k] = add[k - Len(old)] /\ k > Len(old)
    BY <1>3, <1>5
  <1>10. \A x \in Elements(old \o add) : x \in Elements(old) \/ x \in Elements(add)
    BY <1>9, Zenon DEF Elements
  <1>11. Increasing(old \o add)
    <2> SUFFICES ASSUME NEW j \in DOMAIN (old \o add), NEW k \in DOMAIN (old \o add), j < k
                 PROVE  (old \o add)[j] < (old \o add)[k]
      BY Zenon DEF Increasing
    <2>1. j \in Nat /\ k \in Nat /\ Len(old) \in Nat /\ DOMAIN old = 1..Len(old)
      BY <1>3, <1>9
    <2>2. CASE k \in DOMAIN old /\ (old \o add)[k] = old[k]
      <3>1. j \in DOMAIN old /\ ~(j > Len(old))
        BY <1>9, <2>1, <2>2
      <3>2. (old \o add)[j] = old[j]
        BY <1>9, <3>1, Zenon
      <3> QED
        BY <1>7, <2>2, <3>1, <3>2, Zenon DEF Increasing
    <2>3. CASE k - Len(old) \in DOMAIN add /\ (old \o add)[k] = add[k - Len(old)]
      <3>1. CASE j \in DOMAIN old /\ (old \o add)[j] = old[j]
        BY <1>8, <2>3, <3>1, Zenon DEF Elements
      <3>2. CASE j - Len(old) \in DOMAIN add /\ (old \o add)[j] = add[j - Len(old)]
        <4>1. j - Len(old) < k - Len(old)
          BY <2>1
        <4> QED
          BY <1>7, <2>3, <3>2, <4>1, Zenon DEF Increasing
      <3> QED
        BY <1>9, <3>1, <3>2, Zenon
    <2> QED
      BY <1>9, <2>2, <2>3, Zenon
  <1>12. \A x \in Elements(old \o add) : x <= serial'
    BY <1>1, <1>4, <1>6, <1>10, Zenon DEF FilesInv, LinesAreOrdered, ReadingIsOrdered, old
  <1>13. ASSUME NEW g \in 0..at - 1, NEW x \in Elements(old \o add), NEW y \in Numbers(Gen(g))'
         PROVE  x < y
    <2>1. y \in Numbers(Gen(g))
      BY <1>1, Zenon DEF Numbers, Gen, Lines
    <2>2. CASE x \in Elements(old)
      BY <1>4, <2>1, <2>2, Zenon DEF FilesInv, ReadingIsOrdered, at, old
    <2>3. CASE x \in Elements(add)
      BY <1>4, <1>6, <2>1, <2>3, Zenon DEF FilesInv, LinesAreOrdered
    <2> QED
      BY <1>10, <2>2, <2>3, Zenon
  <1>14. ReadingIsOrdered'
    BY <1>2, <1>11, <1>12, <1>13, Zenon DEF ReadingIsOrdered
  <1> QED
    BY <1>2, <1>4, <1>9, <1>14, Zenon

LEMMA FilesStep ==
    ASSUME ARCHIVE_COUNT \in Nat \ {0}, FilesInv, [Next]_vars
    PROVE  FilesInv' /\ LosesOnlyTheOldest
  <1>1. SUFFICES ASSUME ~RotateStep, ~WriteFile PROVE FilesInv' /\ LosesOnlyTheOldest
    BY FilesRotate, FilesWrite, Zenon
  <1>2. process = "down" => worker.pc = "ended"
    BY Zenon DEF FilesInv, FilesShape
  <1>3. CASE /\ UNCHANGED <<sink, rotation, file, archives, serial, reader>>
             /\ process' = "down" => process = "down" /\ worker' = worker
             /\ process = "down" => process' = "down"
    <2>1. FilesShape' /\ RotationMakesRoom'
      BY <1>3, Zenon DEF FilesInv, FilesShape, RotationMakesRoom
    <2> QED
      BY <1>3, <2>1, FilesUnchanged, Zenon DEF FilesInv, Lines
  <1>4. CASE \/ Enqueue \/ BeginDrop \/ PollShutdown \/ Recv \/ Drain \/ SwapDropped
             \/ WriteStderr \/ UNCHANGED vars
    <2>1. UNCHANGED <<sink, rotation, file, archives, serial, reader>>
      BY <1>4, Zenon DEF Enqueue, BeginDrop, PollShutdown, Recv, Drain, SwapDropped,
         WriteStderr, vars, FilesStay, WorkerStays
    <2>2. CASE Enqueue \/ BeginDrop \/ UNCHANGED vars
      BY <1>3, <2>1, <2>2, Zenon DEF Enqueue, BeginDrop, vars
    <2>3. CASE PollShutdown \/ Recv \/ Drain \/ SwapDropped \/ WriteStderr
      <3>1. process' = process /\ worker.pc # "ended"
        BY <2>3 DEF PollShutdown, Recv, Drain, SwapDropped, WriteStderr, WorkerStays, Writing
      <3> QED
        BY <1>2, <1>3, <2>1, <3>1, Zenon
    <2> QED
      BY <1>4, <2>2, <2>3, Zenon
  <1>5. CASE Exit
    <2>1. /\ process' = "down" /\ worker' = Ended /\ rotation' = NotRotating
          /\ UNCHANGED <<sink, file, archives, serial, reader>>
      BY <1>5, Zenon DEF Exit
    <2>2. /\ Ended.pc = "ended" /\ NotRotating \in -2..ARCHIVE_COUNT
          /\ NotRotating \notin 0..ARCHIVE_COUNT - 1
      BY DEF Ended, Loop, NotRotating
    <2>3. FilesShape' /\ RotationMakesRoom'
      BY <2>1, <2>2, Zenon DEF FilesInv, FilesShape, RotationMakesRoom
    <2> QED
      BY <2>1, <2>3, FilesUnchanged, Zenon DEF FilesInv, Lines
  <1>6. CASE Start
    <2>1. /\ process' = "up" /\ UNCHANGED <<rotation, archives, serial, reader>>
          /\ \/ sink' = "file" /\ file' = Lines(file)
             \/ sink' = "stderr" /\ file' = file
      BY <1>6, Zenon DEF Start, OpenLogFile
    <2>2. /\ Lines(file)' = Lines(file) /\ file' \in Seq(Nat)
          /\ sink' = "file" => file' # Gone
      <3>1. Lines(file') = Lines(file)
        BY <2>1, LinesFacts, Zenon
      <3> QED
        BY <2>1, <3>1, LinesFacts, Zenon DEF FilesInv, FilesShape, Lines
    <2>3. FilesShape' /\ RotationMakesRoom'
      BY <2>1, <2>2, Zenon DEF FilesInv, FilesShape, RotationMakesRoom
    <2> QED
      BY <2>1, <2>2, <2>3, FilesUnchanged, Zenon DEF FilesInv
  <1>7. CASE BeginRotate
    <2>1. /\ rotation' = ARCHIVE_COUNT
          /\ UNCHANGED <<process, worker, sink, file, archives, serial, reader>>
      BY <1>7, Zenon DEF BeginRotate, WorkerStays
    <2>2. /\ ARCHIVE_COUNT \in -2..ARCHIVE_COUNT /\ ARCHIVE_COUNT \notin 0..ARCHIVE_COUNT - 1
          /\ ARCHIVE_COUNT # NotRotating
      BY DEF NotRotating
    <2>3. FilesShape' /\ RotationMakesRoom'
      BY <2>1, <2>2, Zenon DEF FilesInv, FilesShape, RotationMakesRoom
    <2> QED
      BY <2>1, <2>3, FilesUnchanged, Zenon DEF FilesInv, Lines
  <1>8. CASE BeginRead \/ ReadSafeLines
    <2>1. UNCHANGED <<process, worker, sink, rotation, file, archives, serial>>
      BY <1>8, Zenon DEF BeginRead, ReadSafeLines, FilesStay
    <2>2. LinesAreOrdered' /\ LosesOnlyTheOldest
      BY <2>1, FilesStand, Zenon DEF Lines
    <2>3. ReadingIsOrdered' /\ reader'.at \in -1..ARCHIVE_COUNT /\ reader'.lines \in Seq(Nat)
      <3>1. CASE BeginRead
        <4>1. reader'.at = ARCHIVE_COUNT /\ reader'.lines = <<>>
          BY <3>1 DEF BeginRead
        <4>2. Elements(<<>>) = {} /\ Increasing(<<>>)
          BY DEF Elements, Increasing
        <4>3. ReadingIsOrdered'
          BY <4>1, <4>2, Zenon DEF ReadingIsOrdered
        <4> QED
          BY <4>1, <4>3
      <3> QED
        BY <1>8, <3>1, FilesRead, Zenon
    <2>4. FilesShape' /\ RotationMakesRoom'
      BY <2>1, <2>3, Zenon DEF FilesInv, FilesShape, RotationMakesRoom
    <2> QED
      BY <2>2, <2>3, <2>4, Zenon DEF FilesInv
  <1> QED
    BY <1>1, <1>4, <1>5, <1>6, <1>7, <1>8, Zenon DEF Next, Work

LEMMA FilesStart ==
    ASSUME ARCHIVE_COUNT \in Nat \ {0}, Init
    PROVE  FilesInv
  <1>1. /\ process = "down" /\ worker.pc = "ended" /\ rotation = NotRotating
        /\ file = Gone /\ archives = [g \in 1..ARCHIVE_COUNT |-> Gone] /\ serial = 0
        /\ reader.at = -1 /\ reader.lines = <<>>
    BY DEF Init, Ended, Loop, NotReading
  <1>2. \A g \in Generations : Gen(g) = Gone
    BY <1>1 DEF Gen, Generations
  <1>3. \A g \in Generations : Numbers(Gen(g)) = {} /\ Lines(Gen(g)) = <<>>
    BY <1>2, LinesFacts, Zenon
  <1>4. Elements(<<>>) = {} /\ Increasing(<<>>)
    BY DEF Elements, Increasing
  <1>5. FilesShape
    BY <1>1 DEF FilesShape, Gone, NotRotating
  <1>6. RotationMakesRoom
    BY <1>1 DEF RotationMakesRoom, NotRotating
  <1>7. LinesAreOrdered
    BY <1>3, <1>4, Zenon DEF LinesAreOrdered
  <1>8. ReadingIsOrdered
    BY <1>1, <1>4, Zenon DEF ReadingIsOrdered
  <1> QED
    BY <1>5, <1>6, <1>7, <1>8, Zenon DEF FilesInv

\* Whatever step of rotate_files fails or is the last before a crash, a line is only lost
\* with the oldest archive: for any number of archives and any size of the files.
THEOREM RotationCorrect ==
    ASSUME ARCHIVE_COUNT \in Nat \ {0}
    PROVE  Spec => OnlyTheOldestIsLost
  <1>1. Init => FilesInv
    BY FilesStart
  <1>2. FilesInv /\ [Next]_vars => FilesInv' /\ LosesOnlyTheOldest
    BY FilesStep
  <1> QED
    BY <1>1, <1>2, PTL DEF Spec, OnlyTheOldestIsLost

------------------------------------------------------------------------------
(* The events: enqueue, the worker's loop and drain, and Drop.             *)

WorkerTypes == [pc : {"loop", "recv", "drain", "swap", "report", "write", "ended"},
                event : Nat, count : Nat, drains : Int]
LifeTypes == [first : Nat, early : Nat, out : SUBSET Nat, lost : SUBSET Nat, reported : Nat]

EventsShape ==
    /\ process \in {"up", "stopping", "down"} /\ shutdown \in BOOLEAN
    /\ worker \in WorkerTypes
    /\ queue \in Seq(Nat) /\ dropped \in Nat /\ next \in Nat
    /\ life \in LifeTypes
    /\ 1 <= life.first /\ life.first <= next

\* Where the worker has an event, or a count of dropped ones, in its hands; it drains
\* only once the flag is set.
WorkerHolds ==
    /\ worker.pc # "report" => worker.count = 0
    /\ worker.pc \in {"loop", "recv", "drain", "ended"} => worker.event = 0
    /\ worker.pc = "write" => worker.event > 0
    /\ worker.pc = "drain" \/ (worker.pc \in {"swap", "report"} /\ worker.event = 0)
         => worker.drains >= 0
    /\ process = "up" => ~shutdown /\ worker.drains < 0 /\ worker.pc # "ended"
    /\ process = "down" => worker.pc = "ended" /\ worker.drains < 0

\* Events leave in the order they came: the written ones are older than the one in the
\* worker's hands, that one older than the queue, and all older than the next.
Offered(n) == life.first <= n /\ n < next
EventsAreOrdered ==
    /\ \A x \in life.out :
         /\ Offered(x) /\ (worker.event > 0 => x < worker.event)
         /\ \A k \in DOMAIN queue : x < queue[k]
    /\ \A x \in life.lost : Offered(x)
    /\ worker.event > 0 => Offered(worker.event)
    /\ \A k \in DOMAIN queue : Offered(queue[k]) /\ worker.event < queue[k]
    /\ Increasing(queue)
NoneIsMissing ==
    \A n \in Nat : Offered(n) =>
      n \in life.out \cup life.lost \cup {worker.event} \cup Elements(queue)

\* The counts.
InHand == IF worker.event > 0 THEN 1 ELSE 0
EventsAreCounted ==
    /\ IsFiniteSet(life.out) /\ IsFiniteSet(life.lost)
    /\ Cardinality(life.lost) = life.reported + dropped + worker.count
    /\ next - life.first = Cardinality(life.out) + Cardinality(life.lost) + Len(queue) + InHand

\* The drain: as many events as the queue can hold, so that those from before Drop are
\* among them, and the last count of dropped events after them.
LastRound ==
    worker.pc = "ended" \/ (worker.pc \in {"swap", "report"} /\ worker.event = 0)
LastCount == worker.pc = "ended" \/ (worker.pc = "report" /\ worker.event = 0)
EarlyLost == (life.first..life.early) \cap life.lost
DrainSuffices ==
    /\ Len(queue) <= QUEUE_CAPACITY
    /\ process = "stopping" =>
         /\ life.early < next
         /\ worker.drains >= 0 =>
              \A k \in DOMAIN queue : queue[k] <= life.early => k + worker.drains <= QUEUE_CAPACITY
         /\ LastRound => \A k \in DOMAIN queue : life.early < queue[k]
         /\ LastCount => Cardinality(EarlyLost) <= life.reported + worker.count

EventsInv ==
    EventsShape /\ WorkerHolds /\ EventsAreOrdered /\ NoneIsMissing /\ EventsAreCounted
    /\ DrainSuffices

\* An event that joins the queue, and the one that leaves it.
LEMMA Joins ==
    ASSUME NEW q \in Seq(Nat), NEW x \in Nat
    PROVE  /\ Append(q, x) \in Seq(Nat) /\ Len(Append(q, x)) = Len(q) + 1 /\ Len(q) \in Nat
           /\ \A k \in DOMAIN Append(q, x) :
                \/ k \in DOMAIN q /\ Append(q, x)[k] = q[k]
                \/ k = Len(q) + 1 /\ Append(q, x)[k] = x
           /\ Elements(q) \cup {x} = Elements(Append(q, x))
           /\ Increasing(q) /\ (\A k \in DOMAIN q : q[k] < x) => Increasing(Append(q, x))
  <1> DEFINE a == Append(q, x)
  <1>1. /\ a \in Seq(Nat) /\ Len(a) = Len(q) + 1 /\ Len(q) \in Nat
        /\ DOMAIN q = 1..Len(q) /\ DOMAIN a = 1..Len(q) + 1
        /\ \A k \in 1..Len(q) : a[k] = q[k]
        /\ a[Len(q) + 1] = x
    OBVIOUS
  <1> HIDE DEF a
  <1>2. /\ \A k \in DOMAIN a : k \in DOMAIN q \/ k = Len(q) + 1
        /\ DOMAIN q \subseteq DOMAIN a /\ Len(q) + 1 \in DOMAIN a
        /\ \A j, k \in DOMAIN a : j < k => j \in DOMAIN q
    BY <1>1
  <1>3. \A k \in DOMAIN a : (k \in DOMAIN q /\ a[k] = q[k]) \/ (k = Len(q) + 1 /\ a[k] = x)
    BY <1>1, <1>2, Zenon
  <1>4. Elements(q) \cup {x} = Elements(a)
    <2>1. \A k \in DOMAIN q : a[k] = q[k]
      BY <1>1, Zenon
    <2> QED
      BY <1>1, <1>2, <1>3, <2>1, ZenonT(30) DEF Elements
  <1>5. ASSUME Increasing(q), \A k \in DOMAIN q : q[k] < x PROVE Increasing(a)
    <2> SUFFICES ASSUME NEW j \in DOMAIN a, NEW k \in DOMAIN a, j < k PROVE a[j] < a[k]
      BY Zenon DEF Increasing
    <2>1. j \in DOMAIN q /\ a[j] = q[j]
      BY <1>1, <1>2, Zenon
    <2> QED
      BY <1>3, <1>5, <2>1, Zenon DEF Increasing
  <1> QED
    BY <1>1, <1>3, <1>4, <1>5, Zenon DEF a

LEMMA Leaves ==
    ASSUME NEW q \in Seq(Nat), q # <<>>
    PROVE  /\ Tail(q) \in Seq(Nat) /\ Len(Tail(q)) = Len(q) - 1 /\ Len(q) \in Nat
           /\ Head(q) \in Nat /\ Head(q) = q[1] /\ 1 \in DOMAIN q
           /\ \A k \in DOMAIN Tail(q) : k \in Nat /\ k + 1 \in DOMAIN q /\ Tail(q)[k] = q[k + 1]
           /\ Elements(q) = Elements(Tail(q)) \cup {Head(q)}
           /\ Increasing(q) =>
                Increasing(Tail(q)) /\ \A k \in DOMAIN Tail(q) : Head(q) < Tail(q)[k]
  <1> DEFINE t == Tail(q)
  <1>1. /\ t \in Seq(Nat) /\ Len(t) = Len(q) - 1 /\ Len(q) \in Nat
        /\ Head(q) \in Nat /\ Head(q) = q[1] /\ 1 \in DOMAIN q
        /\ \A k \in DOMAIN t : k \in Nat /\ k + 1 \in DOMAIN q /\ t[k] = q[k + 1] /\ 1 < k + 1
        /\ \A k \in DOMAIN q : k = 1 \/ (k - 1 \in DOMAIN t /\ t[k - 1] = q[k])
    BY SMTT(30)
  <1> HIDE DEF t
  <1>2. Elements(q) = Elements(t) \cup {Head(q)}
    <2>1. ASSUME NEW v \in Elements(q) PROVE v \in Elements(t) \cup {Head(q)}
      <3>1. PICK k \in DOMAIN q : v = q[k]
        BY <2>1, Zenon DEF Elements
      <3> QED
        BY <1>1, <3>1, Zenon DEF Elements
    <2>2. ASSUME NEW v \in Elements(t) PROVE v \in Elements(q)
      <3>1. PICK k \in DOMAIN t : v = t[k]
        BY <2>2, Zenon DEF Elements
      <3> QED
        BY <1>1, <3>1, Zenon DEF Elements
    <2>3. Head(q) \in Elements(q)
      BY <1>1, Zenon DEF Elements
    <2> QED
      BY <2>1, <2>2, <2>3, Zenon
  <1>3. ASSUME Increasing(q) PROVE Increasing(t) /\ \A k \in DOMAIN t : Head(q) < t[k]
    <2>1. \A j, k \in DOMAIN t : j < k => j + 1 < k + 1
      BY <1>1
    <2> QED
      BY <1>1, <1>3, <2>1, Zenon DEF Increasing
  <1> QED
    BY <1>1, <1>2, <1>3, Zenon DEF t

evars == <<process, shutdown, queue, dropped, worker, next, life>>

LEMMA EventsUnchanged ==
    ASSUME EventsInv, UNCHANGED evars
    PROVE  EventsInv'
  <1>1. /\ process' = process /\ shutdown' = shutdown /\ queue' = queue /\ dropped' = dropped
        /\ worker' = worker /\ next' = next /\ life' = life
    BY Zenon DEF evars
  <1>2. EventsShape' /\ WorkerHolds'
    BY <1>1, Zenon DEF EventsInv, EventsShape, WorkerHolds
  <1>3. EventsAreOrdered' /\ NoneIsMissing'
    BY <1>1, Zenon DEF EventsInv, Offered, EventsAreOrdered, NoneIsMissing, Increasing, Elements
  <1>4. EventsAreCounted'
    BY <1>1, Zenon DEF EventsInv, InHand, EventsAreCounted
  <1>5. DrainSuffices'
    BY <1>1, Zenon DEF EventsInv, LastRound, LastCount, EarlyLost, DrainSuffices
  <1> QED
    BY <1>2, <1>3, <1>4, <1>5, Zenon DEF EventsInv

\* A process that has just started, and one that has just ended.
JustBegun ==
    /\ next \in Nat /\ 1 <= next /\ life = Born(next)
    /\ queue = <<>> /\ dropped = 0 /\ shutdown \in BOOLEAN
    /\ \/ process = "up" /\ worker = Loop /\ ~shutdown
       \/ process = "down" /\ worker = Ended

LEMMA EventsBegin == QUEUE_CAPACITY \in Nat /\ JustBegun => EventsInv
  <1> SUFFICES ASSUME QUEUE_CAPACITY \in Nat, JustBegun PROVE EventsInv
    OBVIOUS
  <1> USE DEF JustBegun
  <1>1. /\ life \in LifeTypes
        /\ life.first = next /\ life.out = {} /\ life.lost = {} /\ life.reported = 0
    BY DEF Born, LifeTypes
  <1>2. /\ worker \in WorkerTypes
        /\ worker.event = 0 /\ worker.count = 0 /\ worker.drains = -1
        /\ worker.pc = IF process = "up" THEN "loop" ELSE "ended"
    BY DEF Loop, Ended, WorkerTypes
  <1>3. <<>> \in Seq(Nat) /\ Len(<<>>) = 0 /\ DOMAIN <<>> = {}
    OBVIOUS
  <1>4. next <= next /\ 0 <= QUEUE_CAPACITY /\ ~(0 > 0) /\ -1 < 0 /\ next - next = 0
        /\ 0 + 0 = 0 /\ \A n \in Nat : ~(next <= n /\ n < next)
    <2>1. \A m \in Nat : m <= m /\ m - m = 0 /\ \A n \in Nat : ~(m <= n /\ n < m)
      OBVIOUS
    <2>2. 0 <= QUEUE_CAPACITY /\ ~(0 > 0) /\ -1 < 0 /\ 0 + 0 = 0
      OBVIOUS
    <2> QED
      BY <2>1, <2>2, Zenon
  <1>5. EventsShape
    BY <1>1, <1>2, <1>3, <1>4, Zenon DEF EventsShape
  <1>6. WorkerHolds
    BY <1>2, <1>4, Zenon DEF WorkerHolds
  <1>7. EventsAreOrdered
    BY <1>1, <1>2, <1>3, <1>4, Zenon DEF EventsAreOrdered, Increasing
  <1>8. NoneIsMissing
    BY <1>1, <1>4, Zenon DEF NoneIsMissing, Offered
  <1>9. EventsAreCounted
    <2>1. IsFiniteSet({}) /\ Cardinality({}) = 0
      BY FS_EmptySet, Zenon
    <2>2. InHand = 0
      BY <1>2, <1>4, Zenon DEF InHand
    <2> QED
      BY <1>1, <1>2, <1>3, <1>4, <2>1, <2>2, Zenon DEF EventsAreCounted
  <1>10. DrainSuffices
    BY <1>3, <1>4, Zenon DEF DrainSuffices
  <1> QED
    BY <1>5, <1>6, <1>7, <1>8, <1>9, <1>10, Zenon DEF EventsInv

\* The fields of the two records.
LEMMA EventsTypes ==
    ASSUME EventsInv
    PROVE  /\ worker.event \in Nat /\ worker.count \in Nat /\ worker.drains \in Int
           /\ worker.pc \in {"loop", "recv", "drain", "swap", "report", "write", "ended"}
           /\ life.first \in Nat /\ life.early \in Nat /\ life.reported \in Nat
           /\ life.out \subseteq Nat /\ life.lost \subseteq Nat
           /\ queue \in Seq(Nat) /\ dropped \in Nat /\ next \in Nat
           /\ 1 <= life.first /\ life.first <= next
           /\ Len(queue) \in Nat /\ \A k \in DOMAIN queue : queue[k] \in Nat /\ k \in Nat /\ 1 <= k
           /\ Cardinality(life.out) \in Nat /\ Cardinality(life.lost) \in Nat
  <1>1. EventsShape /\ EventsAreCounted
    BY Zenon DEF EventsInv
  <1>2. queue \in Seq(Nat)
    BY <1>1, Zenon DEF EventsShape
  <1>3. Len(queue) \in Nat /\ \A k \in DOMAIN queue : queue[k] \in Nat /\ k \in Nat /\ 1 <= k
    BY <1>2
  <1>4. Cardinality(life.out) \in Nat /\ Cardinality(life.lost) \in Nat
    BY <1>1, FS_CardinalityType, Zenon DEF EventsAreCounted
  <1>5. worker.event \in Nat /\ worker.count \in Nat /\ worker.drains \in Int
        /\ worker.pc \in {"loop", "recv", "drain", "swap", "report", "write", "ended"}
    BY <1>1 DEF EventsShape, WorkerTypes
  <1>6. /\ life.first \in Nat /\ life.early \in Nat /\ life.reported \in Nat
        /\ life.out \subseteq Nat /\ life.lost \subseteq Nat
    BY <1>1 DEF EventsShape, LifeTypes
  <1> QED
    BY <1>1, <1>2, <1>3, <1>4, <1>5, <1>6, Zenon DEF EventsShape

\* A step that moves no event leaves them in order, none of them missing.
LEMMA OrderStands ==
    ASSUME EventsInv, queue' = queue, next' = next, worker'.event = worker.event,
           life'.first = life.first, life'.out = life.out, life'.lost = life.lost
    PROVE  EventsAreOrdered' /\ NoneIsMissing'
  BY Zenon DEF EventsInv, Offered, EventsAreOrdered, NoneIsMissing, Increasing, Elements

\* A worker that only goes to another place.
LEMMA CountsStand ==
    ASSUME EventsInv, queue' = queue, next' = next, dropped' = dropped,
           worker'.event = worker.event, worker'.count = worker.count,
           life'.first = life.first, life'.out = life.out, life'.lost = life.lost,
           life'.reported = life.reported
    PROVE  EventsAreCounted'
  BY Zenon DEF EventsInv, EventsAreCounted, InHand

\* BeginDrop: nothing has been drained yet.
LEMMA EventsDrop ==
    ASSUME QUEUE_CAPACITY \in Nat, EventsInv, BeginDrop
    PROVE  EventsInv'
  <1>1. /\ process = "up" /\ process' = "stopping" /\ shutdown' = TRUE
        /\ life' = [life EXCEPT !.early = next - 1]
        /\ queue' = queue /\ dropped' = dropped /\ worker' = worker /\ next' = next
    BY Zenon DEF BeginDrop
  <1>2. EventsShape /\ WorkerHolds /\ DrainSuffices
    BY Zenon DEF EventsInv
  <1>3. next - 1 \in Nat /\ next - 1 < next
    BY SMTT(30), EventsTypes
  <1>4. life \in LifeTypes
    BY <1>2, Zenon DEF EventsShape
  <1>5. /\ life' \in LifeTypes /\ life'.early = next - 1 /\ life'.first = life.first
        /\ life'.out = life.out /\ life'.lost = life.lost /\ life'.reported = life.reported
    BY <1>1, <1>3, <1>4 DEF LifeTypes
  <1>6. EventsShape'
    BY <1>1, <1>2, <1>5, Zenon DEF EventsShape
  <1>7. worker.drains < 0 /\ ~(worker.drains >= 0) /\ worker.pc # "ended"
    <2>1. worker.drains < 0 /\ worker.pc # "ended"
      BY <1>1, <1>2, Zenon DEF WorkerHolds
    <2> QED
      BY <2>1, EventsTypes
  <1>8. WorkerHolds'
    BY <1>1, <1>2, Zenon DEF WorkerHolds
  <1>9. DrainSuffices'
    <2>1. ~LastRound' /\ ~LastCount'
      BY <1>1, <1>2, <1>7, Zenon DEF LastRound, LastCount, WorkerHolds
    <2> QED
      BY <1>1, <1>2, <1>3, <1>5, <1>7, <2>1, Zenon DEF DrainSuffices
  <1>10. EventsAreOrdered' /\ NoneIsMissing' /\ EventsAreCounted'
    BY <1>1, <1>5, OrderStands, CountsStand, Zenon
  <1> QED
    BY <1>6, <1>8, <1>9, <1>10, Zenon DEF EventsInv

\* PollShutdown: the drain begins with no more than the queue can hold before it.
LEMMA EventsPoll ==
    ASSUME QUEUE_CAPACITY \in Nat, EventsInv, PollShutdown
    PROVE  EventsInv'
  <1>1. /\ worker.pc = "loop"
        /\ worker' = IF shutdown THEN [worker EXCEPT !.pc = "drain", !.drains = 0]
                     ELSE [worker EXCEPT !.pc = "recv"]
        /\ process' = process /\ shutdown' = shutdown /\ queue' = queue /\ dropped' = dropped
        /\ next' = next /\ life' = life
    BY Zenon DEF PollShutdown, FilesStay, WorkerStays
  <1>2. EventsShape /\ WorkerHolds /\ DrainSuffices
    BY Zenon DEF EventsInv
  <1>3. worker \in WorkerTypes
    BY <1>2, Zenon DEF EventsShape
  <1>4. /\ worker' \in WorkerTypes /\ worker'.event = worker.event /\ worker'.count = worker.count
        /\ shutdown => worker'.pc = "drain" /\ worker'.drains = 0
        /\ ~shutdown => worker'.pc = "recv" /\ worker'.drains = worker.drains
    <2>1. CASE shutdown
      <3>1. PICK w : w = [worker EXCEPT !.pc = "drain"]
        BY Zenon
      <3>2. w \in WorkerTypes /\ w.event = worker.event /\ w.count = worker.count /\ w.pc = "drain"
        BY <1>3, <3>1 DEF WorkerTypes
      <3>3. worker' = [w EXCEPT !.drains = 0]
        BY <1>1, <2>1, <3>1, Zenon
      <3>4. /\ worker' \in WorkerTypes /\ worker'.event = w.event /\ worker'.count = w.count
            /\ worker'.pc = w.pc /\ worker'.drains = 0
        BY <3>2, <3>3 DEF WorkerTypes
      <3> QED
        BY <2>1, <3>2, <3>4, Zenon
    <2>2. CASE ~shutdown
      <3>1. worker' = [worker EXCEPT !.pc = "recv"]
        BY <1>1, <2>2, Zenon
      <3>2. /\ worker' \in WorkerTypes /\ worker'.event = worker.event /\ worker'.count = worker.count
            /\ worker'.pc = "recv" /\ worker'.drains = worker.drains
        BY <1>3, <3>1 DEF WorkerTypes
      <3> QED
        BY <2>2, <3>2, Zenon
    <2> QED
      BY <2>1, <2>2, Zenon
  <1>5. EventsShape'
    BY <1>1, <1>2, <1>4, Zenon DEF EventsShape
  <1>6. worker.event = 0 /\ worker.count = 0 /\ process # "down" /\ (shutdown => process # "up")
    BY <1>1, <1>2, Zenon DEF WorkerHolds
  <1>7. 0 >= 0
    OBVIOUS
  <1>8. WorkerHolds'
    BY <1>1, <1>2, <1>4, <1>6, <1>7, Zenon DEF WorkerHolds
  <1>9. DrainSuffices'
    <2>1. ~LastRound' /\ ~LastCount'
      BY <1>4, Zenon DEF LastRound, LastCount
    <2>2. Len(queue) <= QUEUE_CAPACITY
      BY <1>2, Zenon DEF DrainSuffices
    <2>3. queue \in Seq(Nat)
      BY EventsTypes, Zenon
    <2>4. \A k \in DOMAIN queue : k + 0 <= QUEUE_CAPACITY
      BY <2>2, <2>3
    <2> QED
      BY <1>1, <1>2, <1>4, <2>1, <2>2, <2>4, Zenon DEF DrainSuffices
  <1>10. EventsAreOrdered' /\ NoneIsMissing' /\ EventsAreCounted'
    BY <1>1, <1>4, OrderStands, CountsStand, Zenon
  <1> QED
    BY <1>5, <1>8, <1>9, <1>10, Zenon DEF EventsInv

\* Enqueue: the event joins the queue, or is counted.
LEMMA EventsEnqueue ==
    ASSUME QUEUE_CAPACITY \in Nat, EventsInv, Enqueue
    PROVE  EventsInv'
  <1>1. /\ process # "down" /\ next' = next + 1
        /\ process' = process /\ shutdown' = shutdown /\ worker' = worker
        /\ \/ /\ Len(queue) < QUEUE_CAPACITY /\ queue' = Append(queue, next)
              /\ dropped' = dropped /\ life' = life
           \/ /\ queue' = queue /\ dropped' = dropped + 1
              /\ life' = [life EXCEPT !.lost = life.lost \cup {next}]
    BY Zenon DEF Enqueue
  <1>2. EventsShape /\ WorkerHolds /\ EventsAreOrdered /\ NoneIsMissing /\ EventsAreCounted
        /\ DrainSuffices
    BY Zenon DEF EventsInv
  <1> DEFINE n == next'
  <1>3. /\ n \in Nat /\ next < n /\ life.first <= n /\ \A x \in Nat : x < n => x < next \/ x = next
        /\ \A x \in Nat : x < next => x < n
    <2>1. \A m, f \in Nat :
            f <= m => /\ m + 1 \in Nat /\ m < m + 1 /\ f <= m + 1
                      /\ \A x \in Nat : x < m + 1 => x < m \/ x = m
                      /\ \A x \in Nat : x < m => x < m + 1
      OBVIOUS
    <2> QED
      BY <1>1, <2>1, EventsTypes, Zenon
  <1>4. WorkerHolds'
    BY <1>1, <1>2, Zenon DEF WorkerHolds
  <1>5. worker.event \in Nat /\ (worker.event > 0 => worker.event < next) /\ (~(worker.event > 0) => worker.event = 0)
    <2>1. worker.event > 0 => worker.event < next
      BY <1>2, Zenon DEF EventsAreOrdered, Offered
    <2> QED
      BY <2>1, EventsTypes
  <1>6. worker.event < next /\ next \in Nat /\ life.first <= next /\ life.first \in Nat
    BY SMTT(30), <1>5, EventsTypes
  <1>7. CASE Len(queue) < QUEUE_CAPACITY /\ queue' = Append(queue, next)
             /\ dropped' = dropped /\ life' = life
    <2>1. /\ queue' \in Seq(Nat) /\ Len(queue') = Len(queue) + 1 /\ Len(queue) \in Nat
          /\ \A k \in DOMAIN queue' :
                \/ k \in DOMAIN queue /\ queue'[k] = queue[k]
                \/ k = Len(queue) + 1 /\ queue'[k] = next
          /\ Elements(queue) \cup {next} = Elements(queue')
          /\ Increasing(queue) /\ (\A k \in DOMAIN queue : queue[k] < next) => Increasing(queue')
      BY <1>7, Joins, EventsTypes, Zenon
    <2>2. EventsShape'
      BY <1>1, <1>2, <1>3, <1>7, <2>1, Zenon DEF EventsShape
    <2>3. \A x \in Nat : Offered(x) => Offered(x)' /\ x < next
      BY <1>3, <1>7, Zenon DEF Offered
    <2>5. /\ \A x \in life.out : x \in Nat /\ Offered(x)
          /\ \A x \in life.lost : x \in Nat /\ Offered(x)
          /\ \A k \in DOMAIN queue : queue[k] \in Nat /\ Offered(queue[k])
          /\ worker.event > 0 => worker.event \in Nat /\ Offered(worker.event)
      BY <1>2, EventsTypes, Zenon DEF EventsAreOrdered
    <2>6. Increasing(queue)'
      BY <1>2, <2>1, <2>3, <2>5, Zenon DEF EventsAreOrdered, Increasing
    <2>7. EventsAreOrdered'
      <3>1. \A x \in life'.out :
              /\ Offered(x)' /\ (worker'.event > 0 => x < worker'.event)
              /\ \A k \in DOMAIN queue' : x < queue'[k]
        BY <1>1, <1>2, <1>7, <2>1, <2>3, <2>5, Zenon DEF EventsAreOrdered
      <3>2. \A x \in life'.lost : Offered(x)'
        BY <1>7, <2>3, <2>5, Zenon
      <3>3. worker'.event > 0 => Offered(worker.event)'
        BY <1>1, <2>3, <2>5, Zenon
      <3>4. \A k \in DOMAIN queue' : Offered(queue[k])' /\ worker'.event < queue'[k]
        <4> SUFFICES ASSUME NEW k \in DOMAIN queue'
                     PROVE  life'.first <= queue'[k] /\ queue'[k] < next' /\ worker'.event < queue'[k]
          BY Zenon DEF Offered
        <4>1. CASE k \in DOMAIN queue /\ queue'[k] = queue[k]
          BY <1>1, <1>2, <1>3, <1>7, <4>1, <2>5, ZenonT(30) DEF EventsAreOrdered, Offered
        <4>2. CASE queue'[k] = next
          BY <1>1, <1>3, <1>6, <1>7, <4>2, Zenon
        <4> QED
          BY <2>1, <4>1, <4>2, Zenon
      <3> QED
        BY <3>1, <3>2, <3>3, <3>4, <2>6, Zenon DEF EventsAreOrdered
    <2>8. NoneIsMissing'
      <3> SUFFICES ASSUME NEW x \in Nat, life'.first <= x, x < next'
                   PROVE  x \in life'.out \cup life'.lost \cup {worker'.event} \cup Elements(queue')
        BY Zenon DEF NoneIsMissing, Offered, Elements
      <3>1. x = next \/ (life.first <= x /\ x < next)
        BY <1>3, <1>7, Zenon
      <3> QED
        BY <1>1, <1>2, <1>7, <2>1, <3>1, Zenon DEF NoneIsMissing, Offered
    <2>9. EventsAreCounted'
      <3>1. InHand' = InHand /\ InHand \in Nat
        BY <1>1, Zenon DEF InHand
      <3>2. next - life.first = Cardinality(life.out) + Cardinality(life.lost) + Len(queue) + InHand
        BY <1>2, Zenon DEF EventsAreCounted
      <3> HIDE DEF n
      <3>9. /\ next \in Nat /\ life.first \in Nat /\ Cardinality(life.out) \in Nat
            /\ Cardinality(life.lost) \in Nat /\ Len(queue) \in Nat /\ dropped \in Nat
            /\ life.reported \in Nat /\ worker.count \in Nat
        BY EventsTypes, Zenon
      <3>3. next' - life.first = Cardinality(life.out) + Cardinality(life.lost) + Len(queue') + InHand
        <4>1. (next + 1) - life.first
                = Cardinality(life.out) + Cardinality(life.lost) + (Len(queue) + 1) + InHand
          <5>2. PICK o, l, q, h, m, f \in Nat :
                  /\ o = Cardinality(life.out) /\ l = Cardinality(life.lost) /\ q = Len(queue)
                  /\ h = InHand /\ m = next /\ f = life.first
            BY <3>1, <3>9, Zenon
          <5>3. m - f = o + l + q + h
            BY <3>2, <5>2, Zenon
          <5>4. (m + 1) - f = o + l + (q + 1) + h
            BY <5>3
          <5> QED
            BY <5>2, <5>4, Zenon
        <4> QED
          BY <1>1, <2>1, <4>1, Zenon
      <3> QED
        BY <1>1, <1>2, <1>7, <3>1, <3>3, Zenon DEF EventsAreCounted
    <2>10. DrainSuffices'
      <3>1. Len(queue') <= QUEUE_CAPACITY
        BY <1>7, <2>1
      <3> SUFFICES ASSUME process = "stopping"
                   PROVE  /\ life.early < next'
                          /\ worker.drains >= 0 =>
                               \A k \in DOMAIN queue' : queue'[k] <= life.early => k + worker.drains <= QUEUE_CAPACITY
                          /\ LastRound => \A k \in DOMAIN queue' : life.early < queue'[k]
                          /\ LastCount => Cardinality(EarlyLost) <= life.reported + worker.count
        BY <1>1, <1>7, <3>1, Zenon DEF DrainSuffices, LastRound, LastCount, EarlyLost
      <3>2. life.early < next
        BY <1>2, Zenon DEF DrainSuffices
      <3>3. life.early < next' /\ ~(next <= life.early)
        BY SMTT(30), <1>1, <3>2, EventsTypes
      <3> QED
        BY <1>2, <2>1, <3>2, <3>3, Zenon DEF DrainSuffices
    <2> QED
      BY <1>4, <2>2, <2>7, <2>8, <2>9, <2>10, Zenon DEF EventsInv
  <1>8. CASE queue' = queue /\ dropped' = dropped + 1
             /\ life' = [life EXCEPT !.lost = life.lost \cup {next}]
    <2>1. life \in LifeTypes
      BY <1>2, Zenon DEF EventsShape
    <2>2. life.lost \cup {next} \in SUBSET Nat /\ dropped + 1 \in Nat
      BY EventsTypes
    <2>3. /\ life' \in LifeTypes /\ life'.lost = life.lost \cup {next} /\ life'.early = life.early
          /\ life'.first = life.first /\ life'.out = life.out /\ life'.reported = life.reported
      BY <1>8, <2>1, <2>2 DEF LifeTypes
    <2>4. EventsShape'
      BY <1>1, <1>2, <1>3, <1>8, <2>2, <2>3, Zenon DEF EventsShape
    <2>5. \A x \in Nat : life.first <= x /\ x < next => life'.first <= x /\ x < next'
      BY <1>3, <2>3, Zenon
    <2>6. life'.first <= next /\ next < next'
      BY <1>3, <1>6, <2>3, Zenon
    <2>7. EventsAreOrdered'
      <3>1. /\ \A x \in life.out : x \in Nat
            /\ \A x \in life.lost : x \in Nat
            /\ \A k \in DOMAIN queue : queue[k] \in Nat
            /\ worker.event \in Nat
        BY EventsTypes, Zenon
      <3> QED
        BY <1>1, <1>2, <1>8, <2>3, <2>5, <2>6, <3>1, ZenonT(30) DEF EventsAreOrdered, Offered, Increasing
    <2>8. NoneIsMissing'
      BY <1>1, <1>2, <1>3, <1>8, <2>3, ZenonT(30) DEF NoneIsMissing, Offered, Elements
    <2>9. next \notin life.lost
      <3>1. \A x \in life.lost : x < next /\ x \in Nat
        BY <1>2, EventsTypes, Zenon DEF EventsAreOrdered, Offered
      <3>2. ~(next < next)
        BY EventsTypes
      <3> QED
        BY <3>1, <3>2, Zenon
    <2>10. EventsAreCounted'
      <3>1. InHand' = InHand /\ InHand \in Nat
        BY <1>1, Zenon DEF InHand
      <3>2. /\ next - life.first = Cardinality(life.out) + Cardinality(life.lost) + Len(queue) + InHand
            /\ Cardinality(life.lost) = life.reported + dropped + worker.count
            /\ IsFiniteSet(life.out) /\ IsFiniteSet(life.lost)
        BY <1>2, Zenon DEF EventsAreCounted
      <3>3. IsFiniteSet(life'.lost) /\ Cardinality(life'.lost) = Cardinality(life.lost) + 1
        BY <2>3, <2>9, <3>2, FS_AddElement, ZenonT(30)
      <3> HIDE DEF n
      <3>9. /\ next \in Nat /\ life.first \in Nat /\ Cardinality(life.out) \in Nat
            /\ Cardinality(life.lost) \in Nat /\ Len(queue) \in Nat /\ dropped \in Nat
            /\ life.reported \in Nat /\ worker.count \in Nat
        BY EventsTypes, Zenon
      <3>4. next' - life.first = Cardinality(life.out) + Cardinality(life'.lost) + Len(queue) + InHand
        <4>1. (next + 1) - life.first
                = Cardinality(life.out) + (Cardinality(life.lost) + 1) + Len(queue) + InHand
          <5>1. next - life.first = Cardinality(life.out) + Cardinality(life.lost) + Len(queue) + InHand
            BY <3>2, Zenon
          <5>2. PICK o, l, q, h, m, f \in Nat :
                  /\ o = Cardinality(life.out) /\ l = Cardinality(life.lost) /\ q = Len(queue)
                  /\ h = InHand /\ m = next /\ f = life.first
            BY <3>1, <3>9, Zenon
          <5>3. m - f = o + l + q + h
            BY <5>1, <5>2, Zenon
          <5>4. (m + 1) - f = o + (l + 1) + q + h
            BY <5>3
          <5> QED
            BY <5>2, <5>4, Zenon
        <4> QED
          BY <1>1, <3>3, <4>1, Zenon
      <3>5. Cardinality(life'.lost) = life.reported + dropped' + worker.count
        <4>1. Cardinality(life.lost) + 1 = life.reported + (dropped + 1) + worker.count
          <5>1. Cardinality(life.lost) = life.reported + dropped + worker.count
            BY <3>2, Zenon
          <5> QED
            BY SMTT(30), <3>9, <5>1
        <4> QED
          BY <1>8, <3>3, <4>1, Zenon
      <3> QED
        BY <1>1, <1>8, <2>3, <3>1, <3>2, <3>3, <3>4, <3>5, Zenon DEF EventsAreCounted
    <2>11. DrainSuffices'
      <3> SUFFICES ASSUME process = "stopping"
                   PROVE  /\ life.early < next'
                          /\ worker.drains >= 0 =>
                               \A k \in DOMAIN queue : queue[k] <= life.early => k + worker.drains <= QUEUE_CAPACITY
                          /\ LastRound => \A k \in DOMAIN queue : life.early < queue[k]
                          /\ LastCount => Cardinality(EarlyLost') <= life.reported + worker.count
        BY <1>1, <1>2, <1>8, <2>3, Zenon DEF DrainSuffices, LastRound, LastCount
      <3>1. life.early < next
        BY <1>2, Zenon DEF DrainSuffices
      <3>2. life.early < next' /\ next \notin life.first..life.early
        BY SMTT(30), <1>1, <3>1, EventsTypes
      <3>3. EarlyLost' = EarlyLost
        BY <2>3, <3>2, Zenon DEF EarlyLost
      <3> QED
        BY <1>2, <3>2, <3>3, Zenon DEF DrainSuffices
    <2> QED
      BY <1>4, <2>4, <2>7, <2>8, <2>10, <2>11, Zenon DEF EventsInv
  <1> QED
    BY <1>1, <1>7, <1>8, Zenon

\* The worker takes an event from the queue.
LEMMA EventsTake ==
    ASSUME QUEUE_CAPACITY \in Nat, EventsInv, NEW d \in Int,
           worker.pc \in {"recv", "drain"}, queue # <<>>, Taking(d),
           d = -1 \/ (d = worker.drains + 1 /\ worker.pc = "drain"),
           process' = process, shutdown' = shutdown, dropped' = dropped, next' = next, life' = life
    PROVE  EventsInv'
  <1>1. /\ queue' = Tail(queue)
        /\ worker' = [worker EXCEPT !.pc = "swap", !.event = Head(queue), !.drains = d]
    BY Zenon DEF Taking
  <1>2. EventsShape /\ WorkerHolds /\ EventsAreOrdered /\ NoneIsMissing /\ EventsAreCounted
        /\ DrainSuffices
    BY Zenon DEF EventsInv
  <1>3. /\ queue' \in Seq(Nat) /\ Len(queue') = Len(queue) - 1 /\ Len(queue) \in Nat
        /\ Head(queue) \in Nat /\ Head(queue) = queue[1] /\ 1 \in DOMAIN queue
        /\ \A k \in DOMAIN queue' : k \in Nat /\ k + 1 \in DOMAIN queue /\ queue'[k] = queue[k + 1]
        /\ Elements(queue) = Elements(queue') \cup {Head(queue)}
        /\ Increasing(queue) =>
             Increasing(queue') /\ \A k \in DOMAIN queue' : Head(queue) < queue'[k]
    BY <1>1, Leaves, EventsTypes, Zenon
  <1>4. worker.event = 0 /\ worker.count = 0
    BY <1>2, Zenon DEF WorkerHolds
  <1>5. /\ worker' \in WorkerTypes /\ worker'.pc = "swap" /\ worker'.event = Head(queue)
        /\ worker'.count = worker.count /\ worker'.drains = d
    <2>1. worker \in WorkerTypes
      BY <1>2, Zenon DEF EventsShape
    <2>2. PICK w : w = [worker EXCEPT !.pc = "swap"]
      BY Zenon
    <2>3. w \in WorkerTypes /\ w.pc = "swap" /\ w.count = worker.count
      BY <2>1, <2>2 DEF WorkerTypes
    <2>4. PICK v : v = [w EXCEPT !.event = Head(queue)]
      BY Zenon
    <2>5. v \in WorkerTypes /\ v.pc = w.pc /\ v.count = w.count /\ v.event = Head(queue)
      BY <1>3, <2>3, <2>4, SMTT(30) DEF WorkerTypes
    <2>6. worker' = [v EXCEPT !.drains = d]
      BY <1>1, <2>2, <2>4, Zenon
    <2>7. worker' \in WorkerTypes /\ worker'.pc = v.pc /\ worker'.count = v.count
          /\ worker'.event = v.event /\ worker'.drains = d
      BY <2>5, <2>6 DEF WorkerTypes
    <2> QED
      BY <2>3, <2>5, <2>7, Zenon
  <1>6. Offered(queue[1]) /\ \A x \in life.out : x < queue[1]
    BY <1>2, <1>3, Zenon DEF EventsAreOrdered
  <1>7. Head(queue) > 0 /\ Head(queue) # 0
    BY <1>3, <1>6, EventsTypes, SMTT(30) DEF Offered
  <1>8. EventsShape'
    BY <1>2, <1>3, <1>5, Zenon DEF EventsShape
  <1>9. -1 < 0 /\ ~(-1 >= 0)
    OBVIOUS
  <1>10. WorkerHolds'
    <2>1. process # "down"
      BY <1>2, Zenon DEF WorkerHolds
    <2>2. CASE process = "up"
      <3>1. worker.pc # "drain"
        <4>1. worker.drains < 0
          BY <1>2, <2>2, Zenon DEF WorkerHolds
        <4>2. ~(worker.drains >= 0)
          BY <4>1, EventsTypes
        <4> QED
          BY <1>2, <4>2, Zenon DEF WorkerHolds
      <3> QED
        BY <1>2, <1>4, <1>5, <1>7, <1>9, <2>2, <3>1, Zenon DEF WorkerHolds
    <2>3. CASE process = "stopping"
      BY <1>4, <1>5, <1>7, <2>3, Zenon DEF WorkerHolds
    <2> QED
      BY <1>2, <2>1, <2>2, <2>3, Zenon DEF EventsShape
  <1>11. EventsAreOrdered'
    BY <1>2, <1>3, <1>5, <1>6, Zenon DEF EventsAreOrdered, Offered
  <1>12. NoneIsMissing'
    <2>1. 0 \in Nat /\ ~(life.first <= 0)
      BY EventsTypes
    <2> SUFFICES ASSUME NEW x \in Nat, life.first <= x, x < next
                 PROVE  x \in life.out \cup life.lost \cup {worker'.event} \cup Elements(queue')
      BY Zenon DEF NoneIsMissing, Offered, Elements
    <2>2. x \in life.out \cup life.lost \cup {worker.event} \cup Elements(queue)
      BY <1>2, Zenon DEF NoneIsMissing, Offered
    <2> QED
      BY <1>3, <1>4, <1>5, <2>1, <2>2, Zenon
  <1>13. EventsAreCounted'
    <2>1. ~(0 > 0)
      OBVIOUS
    <2>2. InHand = 0 /\ InHand' = 1
      BY <1>4, <1>5, <1>7, <2>1, Zenon DEF InHand
    <2>3. PICK o, l, q, m \in Nat :
            /\ o = Cardinality(life.out) /\ l = Cardinality(life.lost) /\ q = Len(queue)
            /\ m = next - life.first
      <3>1. next - life.first \in Nat
        BY SMTT(30), EventsTypes
      <3> QED
        BY <3>1, EventsTypes, Zenon
    <2>4. m = o + l + q + 0
      BY <1>2, <2>2, <2>3, Zenon DEF EventsAreCounted
    <2>5. m = o + l + (q - 1) + 1
      BY <2>4
    <2> QED
      BY <1>2, <1>3, <1>4, <1>5, <2>2, <2>3, <2>5, ZenonT(30) DEF EventsAreCounted
  <1>14. DrainSuffices'
    <2>1. ~LastRound' /\ ~LastCount'
      BY <1>5, <1>7, Zenon DEF LastRound, LastCount
    <2>2. Len(queue) <= QUEUE_CAPACITY
      BY <1>2, Zenon DEF DrainSuffices
    <2>3. Len(queue') <= QUEUE_CAPACITY
      BY <1>3, <2>2
    <2>4. ASSUME process = "stopping", d >= 0, NEW k \in DOMAIN queue', queue'[k] <= life.early
          PROVE  k + d <= QUEUE_CAPACITY
      <3>1. d = worker.drains + 1 /\ worker.pc = "drain"
        BY <1>9, <2>4, Zenon
      <3>2. worker.drains >= 0
        BY <1>2, <3>1, Zenon DEF WorkerHolds
      <3>3. k \in Nat /\ k + 1 \in DOMAIN queue /\ queue[k + 1] <= life.early
        BY <1>3, <2>4, Zenon
      <3>4. (k + 1) + worker.drains <= QUEUE_CAPACITY
        BY <1>2, <2>4, <3>2, <3>3, Zenon DEF DrainSuffices
      <3>5. k \in Nat /\ worker.drains \in Int /\ d = worker.drains + 1
        BY <3>1, <3>3, EventsTypes, Zenon
      <3> QED
        BY <3>4, <3>5
    <2> QED
      BY <1>2, <1>5, <2>1, <2>3, <2>4, Zenon DEF DrainSuffices
  <1> QED
    BY <1>8, <1>10, <1>11, <1>12, <1>13, <1>14, Zenon DEF EventsInv

\* Recv and Drain when they take no event: the worker loops, or has drained all that was
\* there before Drop.
LEMMA EventsRecv ==
    ASSUME QUEUE_CAPACITY \in Nat, EventsInv, Recv
    PROVE  EventsInv'
  <1>1. /\ worker.pc = "recv" /\ process' = process /\ shutdown' = shutdown /\ dropped' = dropped
        /\ next' = next /\ life' = life
        /\ \/ queue = <<>> /\ worker' = Loop /\ queue' = queue
           \/ queue # <<>> /\ Taking(-1)
    BY Zenon DEF Recv, FilesStay, WorkerStays
  <1>2. CASE queue # <<>> /\ Taking(-1)
    <2>1. -1 \in Int
      OBVIOUS
    <2> QED
      BY <1>1, <1>2, <2>1, EventsTake, Zenon
  <1>3. CASE queue = <<>> /\ worker' = Loop /\ queue' = queue
    <2>1. EventsShape /\ WorkerHolds /\ DrainSuffices
      BY Zenon DEF EventsInv
    <2>2. /\ worker' \in WorkerTypes /\ worker'.pc = "loop" /\ worker'.event = 0 /\ worker'.count = 0
          /\ worker'.drains = -1
      BY <1>3 DEF Loop, WorkerTypes
    <2>3. worker.event = 0 /\ worker.count = 0 /\ process # "down"
      BY <1>1, <2>1, Zenon DEF WorkerHolds
    <2>4. -1 < 0 /\ ~(-1 >= 0)
      OBVIOUS
    <2>5. EventsShape'
      BY <1>1, <1>3, <2>1, <2>2, Zenon DEF EventsShape
    <2>6. WorkerHolds'
      BY <1>1, <2>1, <2>2, <2>3, <2>4, Zenon DEF WorkerHolds
    <2>7. DrainSuffices'
      BY <1>1, <1>3, <2>1, <2>2, <2>4, Zenon DEF DrainSuffices, LastRound, LastCount
    <2>8. EventsAreOrdered' /\ NoneIsMissing' /\ EventsAreCounted'
      BY <1>1, <1>3, <2>2, <2>3, OrderStands, CountsStand, Zenon
    <2> QED
      BY <2>5, <2>6, <2>7, <2>8, Zenon DEF EventsInv
  <1> QED
    BY <1>1, <1>2, <1>3, Zenon

LEMMA EventsDrain ==
    ASSUME QUEUE_CAPACITY \in Nat, EventsInv, Drain
    PROVE  EventsInv'
  <1>1. /\ worker.pc = "drain" /\ process' = process /\ shutdown' = shutdown /\ dropped' = dropped
        /\ next' = next /\ life' = life
        /\ \/ queue # <<>> /\ Taking(worker.drains + 1)
           \/ /\ queue = <<>> \/ ~(worker.drains < QUEUE_CAPACITY)
              /\ worker' = [worker EXCEPT !.pc = "swap", !.event = 0] /\ queue' = queue
    BY Zenon DEF Drain, DrainsLeft, FilesStay, WorkerStays
  <1>2. CASE queue # <<>> /\ Taking(worker.drains + 1)
    <2>1. worker.drains + 1 \in Int
      BY EventsTypes
    <2> QED
      BY <1>1, <1>2, <2>1, EventsTake, Zenon
  <1>3. CASE /\ queue = <<>> \/ ~(worker.drains < QUEUE_CAPACITY)
             /\ worker' = [worker EXCEPT !.pc = "swap", !.event = 0] /\ queue' = queue
    <2>1. EventsShape /\ WorkerHolds /\ DrainSuffices
      BY Zenon DEF EventsInv
    <2>2. worker.event = 0 /\ worker.count = 0 /\ worker.drains >= 0 /\ process # "down"
      BY <1>1, <2>1, Zenon DEF WorkerHolds
    <2>3. worker \in WorkerTypes
      BY <2>1, Zenon DEF EventsShape
    <2>4. PICK w : w = [worker EXCEPT !.pc = "swap"]
      BY Zenon
    <2>5. w \in WorkerTypes /\ w.pc = "swap" /\ w.count = worker.count /\ w.drains = worker.drains
      BY <2>3, <2>4 DEF WorkerTypes
    <2>6. worker' = [w EXCEPT !.event = 0]
      BY <1>3, <2>4, Zenon
    <2>7. /\ worker' \in WorkerTypes /\ worker'.pc = w.pc /\ worker'.count = w.count
          /\ worker'.drains = w.drains /\ worker'.event = 0
      BY <2>5, <2>6 DEF WorkerTypes
    <2>8. EventsShape'
      BY <1>1, <1>3, <2>1, <2>7, Zenon DEF EventsShape
    <2>9. WorkerHolds'
      BY <1>1, <2>1, <2>2, <2>5, <2>7, Zenon DEF WorkerHolds
    <2>10. DrainSuffices'
      <3>1. ~LastCount'
        BY <2>5, <2>7, Zenon DEF LastCount
      <3>2. ASSUME process = "stopping", NEW k \in DOMAIN queue PROVE life.early < queue[k]
        <4>1. queue[k] \in Nat /\ k \in Nat /\ 1 <= k /\ life.early \in Nat /\ worker.drains \in Int
          BY <3>2, EventsTypes, Zenon
        <4>2. queue[k] <= life.early => k + worker.drains <= QUEUE_CAPACITY
          BY <2>1, <2>2, <3>2, Zenon DEF DrainSuffices
        <4>3. queue # <<>>
          BY <3>2
        <4>4. ~(worker.drains < QUEUE_CAPACITY)
          BY <1>3, <4>3, Zenon
        <4> QED
          BY <4>1, <4>2, <4>4
      <3> QED
        BY <1>1, <1>3, <2>1, <2>5, <2>7, <3>1, <3>2, Zenon DEF DrainSuffices
    <2>11. EventsAreOrdered' /\ NoneIsMissing' /\ EventsAreCounted'
      BY <1>1, <1>3, <2>2, <2>5, <2>7, OrderStands, CountsStand, Zenon
    <2> QED
      BY <2>8, <2>9, <2>10, <2>11, Zenon DEF EventsInv
  <1> QED
    BY <1>1, <1>2, <1>3, Zenon

\* What the last count of dropped events covers.
LEMMA EarlyAmongLost ==
    ASSUME EventsInv
    PROVE  /\ Cardinality(EarlyLost) \in Nat
           /\ Cardinality(EarlyLost) <= life.reported + dropped + worker.count
  <1>1. /\ IsFiniteSet(life.lost)
        /\ Cardinality(life.lost) = life.reported + dropped + worker.count
    BY Zenon DEF EventsInv, EventsAreCounted
  <1>2. EarlyLost \subseteq life.lost
    BY Zenon DEF EarlyLost
  <1>3. IsFiniteSet(EarlyLost) /\ Cardinality(EarlyLost) <= Cardinality(life.lost)
    BY <1>1, <1>2, FS_Subset, Zenon
  <1> QED
    BY <1>1, <1>3, FS_CardinalityType, Zenon

\* Where the worker goes after the count of dropped events.
LEMMA GoesOn ==
    ASSUME EventsInv, worker' = AfterReport
    PROVE  /\ worker' \in WorkerTypes /\ worker'.event = worker.event /\ worker'.count = 0
           /\ worker.event = 0 => worker'.pc = "ended" /\ worker'.drains = -1
           /\ worker.event # 0 => worker'.pc = "write" /\ worker'.drains = worker.drains
  <1>1. worker \in WorkerTypes
    BY Zenon DEF EventsInv, EventsShape
  <1>2. CASE worker.event = 0
    <2>1. worker' = Ended
      BY <1>2, Zenon DEF AfterReport
    <2> QED
      BY <1>2, <2>1 DEF Ended, Loop, WorkerTypes
  <1>3. CASE worker.event # 0
    <2>1. PICK w : w = [worker EXCEPT !.pc = "write"]
      BY Zenon
    <2>2. w \in WorkerTypes /\ w.event = worker.event /\ w.pc = "write" /\ w.drains = worker.drains
      BY <1>1, <2>1 DEF WorkerTypes
    <2>3. worker' = [w EXCEPT !.count = 0]
      BY <1>3, <2>1, Zenon DEF AfterReport
    <2>4. /\ worker' \in WorkerTypes /\ worker'.event = w.event /\ worker'.pc = w.pc
          /\ worker'.drains = w.drains /\ worker'.count = 0
      BY <2>2, <2>3 DEF WorkerTypes
    <2> QED
      BY <1>3, <2>2, <2>4, Zenon
  <1> QED
    BY <1>2, <1>3, Zenon

\* The first half of write_dropped: the count goes from the counter to the worker.
LEMMA EventsSwap ==
    ASSUME QUEUE_CAPACITY \in Nat, EventsInv, SwapDropped
    PROVE  EventsInv'
  <1>1. /\ worker.pc = "swap" /\ dropped' = 0
        /\ worker' = IF dropped > 0 THEN [worker EXCEPT !.pc = "report", !.count = dropped] ELSE AfterReport
        /\ process' = process /\ shutdown' = shutdown /\ queue' = queue /\ next' = next /\ life' = life
    BY Zenon DEF SwapDropped, TakeDropped, FilesStay, WorkerStays
  <1>2. EventsShape /\ WorkerHolds /\ EventsAreCounted /\ DrainSuffices
    BY Zenon DEF EventsInv
  <1>3. /\ worker.count = 0 /\ process # "down"
        /\ worker.event = 0 => worker.drains >= 0
    BY <1>1, <1>2, Zenon DEF WorkerHolds
  <1>4. /\ worker' \in WorkerTypes /\ worker'.event = worker.event /\ worker'.count = dropped
        /\ \/ worker'.pc = "report" /\ worker'.drains = worker.drains
           \/ worker'.pc = "ended" /\ worker'.event = 0 /\ worker'.count = 0 /\ worker'.drains = -1
           \/ worker'.pc = "write" /\ worker'.event # 0 /\ worker'.count = 0 /\ worker'.drains = worker.drains
    <2>1. CASE dropped > 0
      <3>1. worker \in WorkerTypes /\ dropped \in Nat
        BY <1>2, Zenon DEF EventsShape
      <3>2. PICK w : w = [worker EXCEPT !.pc = "report"]
        BY Zenon
      <3>3. w \in WorkerTypes /\ w.event = worker.event /\ w.pc = "report" /\ w.drains = worker.drains
        BY <3>1, <3>2 DEF WorkerTypes
      <3>4. worker' = [w EXCEPT !.count = dropped]
        BY <1>1, <2>1, <3>2, Zenon
      <3>5. /\ worker' \in WorkerTypes /\ worker'.event = w.event /\ worker'.pc = w.pc
            /\ worker'.drains = w.drains /\ worker'.count = dropped
        BY <3>1, <3>3, <3>4 DEF WorkerTypes
      <3> QED
        BY <3>3, <3>5, Zenon
    <2>2. CASE ~(dropped > 0)
      <3>1. worker' = AfterReport
        BY <1>1, <2>2, Zenon
      <3>2. dropped = 0
        BY <2>2, EventsTypes
      <3> QED
        BY <3>1, <3>2, GoesOn, Zenon
    <2> QED
      BY <2>1, <2>2, Zenon
  <1>5. EventsShape'
    <2>1. 0 \in Nat
      OBVIOUS
    <2> QED
      BY <1>1, <1>2, <1>4, <2>1, Zenon DEF EventsShape
  <1>6. worker.event # 0 => worker.event > 0
    BY SMTT(30), EventsTypes
  <1>7. process = "up" => worker.event # 0
    <2>1. worker.drains < 0 => ~(worker.drains >= 0)
      BY EventsTypes
    <2> QED
      BY <1>2, <1>3, <2>1, Zenon DEF WorkerHolds
  <1>8. WorkerHolds'
    BY <1>1, <1>2, <1>3, <1>4, <1>6, <1>7, Zenon DEF WorkerHolds
  <1>9. EventsAreOrdered' /\ NoneIsMissing'
    BY <1>1, <1>4, OrderStands, Zenon
  <1>10. EventsAreCounted'
    <2>1. life.reported + dropped + 0 = life.reported + 0 + dropped
      BY EventsTypes
    <2>2. Cardinality(life.lost) = life.reported + 0 + dropped
      BY <1>2, <1>3, <2>1, Zenon DEF EventsAreCounted
    <2>3. InHand' = InHand
      BY <1>4, Zenon DEF InHand
    <2> QED
      BY <1>1, <1>2, <1>4, <2>2, <2>3, Zenon DEF EventsAreCounted
  <1>11. DrainSuffices'
    <2>1. life.reported + dropped + 0 = life.reported + dropped
      BY EventsTypes
    <2>2. Cardinality(EarlyLost) <= life.reported + worker'.count
      BY <1>3, <1>4, <2>1, EarlyAmongLost, Zenon
    <2>3. EarlyLost' = EarlyLost
      BY <1>1, Zenon DEF EarlyLost
    <2>4. -1 < 0 /\ ~(-1 >= 0)
      OBVIOUS
    <2>5. LastRound' => LastRound
      BY <1>1, <1>4, Zenon DEF LastRound
    <2>6. worker'.drains >= 0 => worker.drains >= 0 /\ worker'.drains = worker.drains
      BY <1>4, <2>4, Zenon
    <2> QED
      BY <1>1, <1>2, <2>2, <2>3, <2>5, <2>6, Zenon DEF DrainSuffices
  <1> QED
    BY <1>5, <1>8, <1>9, <1>10, <1>11, Zenon DEF EventsInv

\* The line of the dropped events is written.
LEMMA EventsReported ==
    ASSUME QUEUE_CAPACITY \in Nat, EventsInv, worker.pc = "report", Written,
           process' = process, shutdown' = shutdown, queue' = queue, dropped' = dropped, next' = next
    PROVE  EventsInv'
  <1>1. worker' = AfterReport /\ life' = [life EXCEPT !.reported = life.reported + worker.count]
    BY Zenon DEF Written
  <1>2. EventsShape /\ WorkerHolds /\ EventsAreCounted /\ DrainSuffices
    BY Zenon DEF EventsInv
  <1>3. /\ worker' \in WorkerTypes /\ worker'.event = worker.event /\ worker'.count = 0
        /\ worker.event = 0 => worker'.pc = "ended" /\ worker'.drains = -1
        /\ worker.event # 0 => worker'.pc = "write" /\ worker'.drains = worker.drains
    BY <1>1, GoesOn, Zenon
  <1>4. life.reported + worker.count \in Nat
    BY SMTT(30), EventsTypes
  <1>5. life \in LifeTypes
    BY <1>2, Zenon DEF EventsShape
  <1>6. /\ life' \in LifeTypes /\ life'.reported = life.reported + worker.count
        /\ life'.first = life.first /\ life'.early = life.early /\ life'.out = life.out
        /\ life'.lost = life.lost
    BY <1>1, <1>4, <1>5 DEF LifeTypes
  <1>7. EventsShape'
    BY <1>2, <1>3, <1>6, Zenon DEF EventsShape
  <1>8. /\ worker.event # 0 => worker.event > 0
        /\ worker.drains < 0 => ~(worker.drains >= 0)
    BY SMTT(30), EventsTypes
  <1>9. process # "down" /\ (process = "up" => worker.event # 0)
    BY <1>2, <1>8, Zenon DEF WorkerHolds
  <1>10. WorkerHolds'
    BY <1>2, <1>3, <1>8, <1>9, Zenon DEF WorkerHolds
  <1>11. EventsAreOrdered' /\ NoneIsMissing'
    BY <1>3, <1>6, OrderStands, Zenon
  <1>12. EventsAreCounted'
    <2>1. InHand' = InHand
      BY <1>3, Zenon DEF InHand
    <2>2. life.reported + dropped + worker.count = (life.reported + worker.count) + dropped + 0
      BY SMTT(30), EventsTypes
    <2> QED
      BY <1>2, <1>3, <1>6, <2>1, <2>2, Zenon DEF EventsAreCounted
  <1>13. DrainSuffices'
    <2>1. EarlyLost' = EarlyLost
      BY <1>6, Zenon DEF EarlyLost
    <2>2. -1 < 0 /\ ~(-1 >= 0)
      OBVIOUS
    <2>3. (LastRound' => LastRound) /\ (LastCount' => LastCount)
      BY <1>3, Zenon DEF LastRound, LastCount
    <2>4. worker'.drains >= 0 => worker.drains >= 0 /\ worker'.drains = worker.drains
      BY <1>3, <2>2, Zenon
    <2>5. life.reported + worker.count = (life.reported + worker.count) + 0
      BY EventsTypes
    <2> QED
      BY <1>2, <1>3, <1>6, <2>1, <2>3, <2>4, <2>5, Zenon DEF DrainSuffices
  <1> QED
    BY <1>7, <1>10, <1>11, <1>12, <1>13, Zenon DEF EventsInv

\* The line of an event is written.
LEMMA EventsOut ==
    ASSUME QUEUE_CAPACITY \in Nat, EventsInv, worker.pc = "write", Written,
           process' = process, shutdown' = shutdown, queue' = queue, dropped' = dropped, next' = next
    PROVE  EventsInv'
  <1>1. worker' = AfterWrite /\ life' = [life EXCEPT !.out = life.out \cup {worker.event}]
    <2>1. worker.pc # "report"
      BY Zenon
    <2> QED
      BY <2>1, Zenon DEF Written
  <1>2. EventsShape /\ WorkerHolds /\ EventsAreOrdered /\ NoneIsMissing /\ EventsAreCounted
        /\ DrainSuffices
    BY Zenon DEF EventsInv
  <1>3. worker.event > 0 /\ worker.count = 0 /\ process # "down"
    BY <1>2, Zenon DEF WorkerHolds
  <1>4. /\ worker' \in WorkerTypes /\ worker'.event = 0 /\ worker'.count = 0
        /\ \/ worker.drains < 0 /\ worker'.pc = "loop" /\ worker'.drains = -1
           \/ ~(worker.drains < 0) /\ worker'.pc = "drain" /\ worker'.drains = worker.drains
    <2>1. CASE worker.drains < 0
      <3>1. worker' = Loop
        BY <1>1, <2>1, Zenon DEF AfterWrite
      <3> QED
        BY <2>1, <3>1 DEF Loop, WorkerTypes
    <2>2. CASE ~(worker.drains < 0)
      <3>1. worker \in WorkerTypes
        BY <1>2, Zenon DEF EventsShape
      <3>2. PICK w : w = [worker EXCEPT !.pc = "drain"]
        BY Zenon
      <3>3. w \in WorkerTypes /\ w.pc = "drain" /\ w.drains = worker.drains
        BY <3>1, <3>2 DEF WorkerTypes
      <3>4. PICK v : v = [w EXCEPT !.event = 0]
        BY Zenon
      <3>5. v \in WorkerTypes /\ v.pc = w.pc /\ v.drains = w.drains /\ v.event = 0
        BY <3>3, <3>4 DEF WorkerTypes
      <3>6. worker' = [v EXCEPT !.count = 0]
        BY <1>1, <2>2, <3>2, <3>4, Zenon DEF AfterWrite
      <3>7. /\ worker' \in WorkerTypes /\ worker'.pc = v.pc /\ worker'.drains = v.drains
            /\ worker'.event = v.event /\ worker'.count = 0
        BY <3>5, <3>6 DEF WorkerTypes
      <3> QED
        BY <2>2, <3>3, <3>5, <3>7, Zenon
    <2> QED
      BY <2>1, <2>2, Zenon
  <1>5. /\ life' \in LifeTypes /\ life'.out = life.out \cup {worker.event}
        /\ life'.first = life.first /\ life'.early = life.early /\ life'.lost = life.lost
        /\ life'.reported = life.reported
    <2>1. life.out \cup {worker.event} \in SUBSET Nat
      BY EventsTypes
    <2>2. life \in LifeTypes
      BY <1>2, Zenon DEF EventsShape
    <2> QED
      BY <1>1, <2>1, <2>2 DEF LifeTypes
  <1>6. EventsShape'
    BY <1>2, <1>4, <1>5, Zenon DEF EventsShape
  <1>7. /\ -1 < 0 /\ ~(-1 >= 0) /\ ~(0 > 0)
        /\ ~(worker.drains < 0) => worker.drains >= 0
    BY EventsTypes
  <1>8. WorkerHolds'
    BY <1>2, <1>3, <1>4, <1>7, Zenon DEF WorkerHolds
  <1>9. EventsAreOrdered'
    <2>1. \A k \in DOMAIN queue : 0 < queue[k]
      <3> SUFFICES ASSUME NEW k \in DOMAIN queue PROVE 0 < queue[k]
        OBVIOUS
      <3>1. worker.event < queue[k] /\ queue[k] \in Nat /\ worker.event \in Nat
        BY <1>2, EventsTypes, Zenon DEF EventsAreOrdered
      <3> QED
        BY <3>1
    <2> QED
      BY <1>2, <1>3, <1>4, <1>5, <1>7, <2>1, Zenon DEF EventsAreOrdered, Offered, Increasing
  <1>10. NoneIsMissing'
    BY <1>2, <1>5, Zenon DEF NoneIsMissing, Offered, Elements
  <1>11. EventsAreCounted'
    <2>1. InHand = 1 /\ InHand' = 0
      BY <1>3, <1>4, <1>7, Zenon DEF InHand
    <2>2. ~(worker.event < worker.event)
      BY EventsTypes
    <2>3. worker.event \notin life.out
      BY <1>2, <1>3, <2>2, Zenon DEF EventsAreOrdered
    <2>4. IsFiniteSet(life'.out) /\ Cardinality(life'.out) = Cardinality(life.out) + 1
      BY <1>2, <1>5, <2>3, FS_AddElement, ZenonT(30) DEF EventsAreCounted
    <2>5. PICK o, l, q, m \in Nat :
            /\ o = Cardinality(life.out) /\ l = Cardinality(life.lost) /\ q = Len(queue)
            /\ m = next - life.first
      <3>1. next - life.first \in Nat
        BY EventsTypes
      <3> QED
        BY <3>1, EventsTypes, Zenon
    <2>6. m = o + l + q + 1
      BY <1>2, <2>1, <2>5, Zenon DEF EventsAreCounted
    <2>7. m = (o + 1) + l + q + 0
      BY <2>6
    <2> QED
      BY <1>2, <1>3, <1>4, <1>5, <2>1, <2>4, <2>5, <2>7, ZenonT(30) DEF EventsAreCounted
  <1>12. DrainSuffices'
    <2>1. ~LastRound' /\ ~LastCount'
      BY <1>4, Zenon DEF LastRound, LastCount
    <2> QED
      BY <1>2, <1>4, <1>5, <1>7, <2>1, Zenon DEF DrainSuffices
  <1> QED
    BY <1>6, <1>8, <1>9, <1>10, <1>11, <1>12, Zenon DEF EventsInv

LEMMA EventsStep ==
    ASSUME QUEUE_CAPACITY \in Nat, EventsInv, [Next]_vars
    PROVE  EventsInv'
  <1>1. CASE Start \/ Exit
    <2>1. /\ life' = Born(next') /\ next' = next /\ queue' = <<>> /\ dropped' = 0
          /\ \/ process' = "up" /\ worker' = Loop /\ shutdown' = FALSE
             \/ process' = "down" /\ worker' = Ended /\ shutdown' = shutdown
      BY <1>1, Zenon DEF Start, Exit
    <2>2. shutdown \in BOOLEAN /\ next \in Nat
      BY Zenon DEF EventsInv, EventsShape
    <2>3. 1 <= next
      BY EventsTypes
    <2> QED
      <3>1. QUEUE_CAPACITY \in Nat /\ JustBegun'
        BY <2>1, <2>2, <2>3, Zenon DEF JustBegun
      <3>2. (QUEUE_CAPACITY \in Nat /\ JustBegun)' => EventsInv'
        BY EventsBegin, PTL
      <3> QED
        BY <3>1, <3>2, Zenon
  <1>2. CASE WriteStderr \/ WriteFile
    <2>1. /\ worker.pc \in {"report", "write"}
          /\ process' = process /\ shutdown' = shutdown /\ queue' = queue /\ dropped' = dropped
          /\ next' = next
          /\ Written \/ (worker' = worker /\ life' = life)
      BY <1>2, Zenon DEF WriteStderr, WriteFile, Writing, FilesStay, WorkerStays
    <2> QED
      BY <2>1, EventsReported, EventsOut, EventsUnchanged, Zenon DEF evars
  <1>3. CASE BeginRotate \/ RotateStep \/ BeginRead \/ ReadSafeLines \/ UNCHANGED vars
    <2>1. UNCHANGED evars
      BY <1>3, Zenon DEF BeginRotate, RotateStep, BeginRead, ReadSafeLines, vars, evars, FilesStay,
                         WorkerStays
    <2> QED
      BY <2>1, EventsUnchanged, Zenon
  <1> QED
    BY <1>1, <1>2, <1>3, EventsEnqueue, EventsDrop, EventsPoll, EventsRecv, EventsDrain, EventsSwap,
       ZenonT(30) DEF Next, Work

\* The invariant says what the properties say.
LEMMA EventsSuffice ==
    ASSUME EventsInv
    PROVE  Accounted /\ EarlyIsWritten
  <1>1. EventsAreCounted /\ NoneIsMissing /\ DrainSuffices /\ WorkerHolds
    BY Zenon DEF EventsInv
  <1>2. Accounted
    <2>1. PICK o, l, q, h, m, r, d, c \in Nat :
            /\ o = Cardinality(life.out) /\ l = Cardinality(life.lost) /\ q = Len(queue)
            /\ h = InHand /\ m = next - life.first /\ r = life.reported /\ d = dropped
            /\ c = worker.count
      <3>1. next - life.first \in Nat
        BY EventsTypes
      <3>2. InHand \in Nat
        BY DEF InHand
      <3> QED
        BY <3>1, <3>2, EventsTypes, Zenon
    <2>2. m = o + l + q + h /\ l = r + d + c
      BY <1>1, <2>1, Zenon DEF EventsAreCounted
    <2>3. m = o + r + q + d + h + c
      BY <2>2
    <2> QED
      BY <2>1, <2>3, Zenon DEF Accounted, InHand
  <1>3. EarlyIsWritten
    <2> SUFFICES ASSUME process = "stopping", worker.pc = "ended"
                 PROVE  /\ life.first..life.early \subseteq life.out \cup life.lost
                        /\ life.reported >= Cardinality(EarlyLost)
      BY Zenon DEF EarlyIsWritten, EarlyLost
    <2>1. /\ life.early < next /\ worker.event = 0 /\ worker.count = 0
          /\ \A k \in DOMAIN queue : life.early < queue[k]
          /\ Cardinality(EarlyLost) <= life.reported + worker.count
      BY <1>1, Zenon DEF DrainSuffices, LastRound, LastCount, WorkerHolds
    <2>2. ASSUME NEW x \in life.first..life.early PROVE x \in life.out \cup life.lost
      <3>1. x \in Nat /\ life.first <= x /\ x < next /\ x # 0 /\ x <= life.early
        BY <2>1, EventsTypes
      <3>2. x \in life.out \cup life.lost \cup {worker.event} \cup Elements(queue)
        BY <1>1, <3>1, Zenon DEF NoneIsMissing, Offered
      <3>3. ASSUME x \in Elements(queue) PROVE FALSE
        <4>1. PICK k \in DOMAIN queue : x = queue[k]
          BY <3>3, Zenon DEF Elements
        <4>2. life.early < x
          BY <2>1, <4>1, Zenon
        <4> QED
          BY SMTT(30), <3>1, <4>2, EventsTypes
      <3> QED
        BY <2>1, <3>1, <3>2, <3>3, Zenon
    <2>3. life.reported >= Cardinality(EarlyLost)
      <3>1. Cardinality(EarlyLost) \in Nat /\ Cardinality(EarlyLost) <= life.reported + 0
            /\ life.reported \in Nat
        BY <2>1, EarlyAmongLost, EventsTypes, Zenon
      <3> QED
        BY <3>1
    <2> QED
      BY <2>2, <2>3, Zenon
  <1> QED
    BY <1>2, <1>3, Zenon

\* Every event offered is written, counted or still to come, what was offered before Drop
\* is written or counted when the worker has stopped, and a reader never shows a line
\* twice: run_worker, Drop and read_recent_logs, for any size of the queue and of the
\* files and any number of archives, whatever fails and wherever the process ends.
THEOREM LogCorrect ==
    ASSUME ARCHIVE_COUNT \in Nat \ {0}, QUEUE_CAPACITY \in Nat
    PROVE  Spec => []LinesAreAccounted
  <1>1. Init => FilesInv /\ EventsInv
    <2>1. ASSUME Init PROVE EventsInv
      <3>1. /\ process = "down" /\ shutdown = FALSE /\ queue = <<>> /\ dropped = 0
            /\ worker = Ended /\ next = 1 /\ life = Born(1)
        BY <2>1, Zenon DEF Init
      <3>2. 1 \in Nat /\ 1 <= 1
        OBVIOUS
      <3> QED
        BY <3>1, <3>2, EventsBegin, Zenon DEF JustBegun
    <2> QED
      BY <2>1, FilesStart
  <1>2. FilesInv /\ EventsInv /\ [Next]_vars => FilesInv' /\ EventsInv'
    BY FilesStep, EventsStep
  <1>3. FilesInv /\ EventsInv => LinesAreAccounted
    <2>1. ASSUME FilesInv PROVE ReadsNoLineTwice
      <3>1. Increasing(reader.lines) /\ reader.lines \in Seq(Nat)
        BY <2>1, Zenon DEF FilesInv, ReadingIsOrdered, FilesShape
      <3>2. \A j, k \in DOMAIN reader.lines :
              /\ j # k => j < k \/ k < j
              /\ reader.lines[j] < reader.lines[k] => reader.lines[j] # reader.lines[k]
        BY <3>1
      <3> QED
        BY <3>1, <3>2, Zenon DEF Increasing, ReadsNoLineTwice
    <2> QED
      BY <2>1, EventsSuffice, Zenon DEF LinesAreAccounted
  <1> QED
    BY <1>1, <1>2, <1>3, PTL DEF Spec
=============================================================================
