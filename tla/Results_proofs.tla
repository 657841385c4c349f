---------------------------- MODULE Results_proofs ----------------------------
(***************************************************************************)
(* The result files, for any set of files, workers, results and crashes:   *)
(* the types of the store, and the contract of save_result where no two    *)
(* workers run the same exercise.                                          *)
(***************************************************************************)
EXTENDS ResultProperties, FiniteSetTheorems, TLAPS

\* No two workers save the same exercise, as in the run Results; ResultsRace shows
\* what happens otherwise.
OneWriterPerFile == \A v, w \in Writers : KeyOf[v] = KeyOf[w] => v = w

\* The file is what the runs that were written amount to.
Sound(k) ==
  IF tries[k] > 0
    THEN /\ file[k].kind = "whole" /\ file[k].attempts = tries[k]
         /\ file[k].success = (best[k] > 0)
         /\ best[k] > 0 => ReadBack(file[k].duration) <= best[k] /\ best[k] <= file[k].duration
    ELSE file[k].kind # "whole" /\ best[k] = 0

\* A file is unsound only while it is being written.
FilesSound ==
  \A k \in Keys : Sound(k) \/ \E w \in Writers : KeyOf[w] = k /\ wpc[w] = "write"

\* What a worker has decided to write is what the file is to be then.
DecisionHolds(w) ==
  LET k == KeyOf[w]
      fastest == Fastest(w, k)
  IN /\ out[w].kind = "whole" /\ out[w].attempts = Counted(w, k)
     /\ out[w].success = (fastest > 0)
     /\ fastest > 0 => ReadBack(out[w].duration) <= fastest /\ fastest <= out[w].duration

DecisionsHold ==
  \A w \in Writers :
    /\ wpc[w] \in {"open", "write"} => DecisionHolds(w)
    /\ wpc[w] = "write" => file[KeyOf[w]] = Torn

\* Only a worker that has decided is blind.
BlindDecided == \A w \in blind : wpc[w] \in {"open", "write"}

DiskInv == FilesSound /\ DecisionsHold /\ BlindDecided

-----------------------------------------------------------------------------
(* Types. *)

LEMMA UnusableFiles ==
  ASSUME NEW f \in {Absent, Torn}
  PROVE  f.kind \in {"absent", "torn"} /\ f.success = FALSE /\ f.duration = 0 /\ f.attempts = 0
<1>1. /\ Absent = [kind |-> "absent", success |-> FALSE, duration |-> 0, attempts |-> 0]
      /\ Torn = [kind |-> "torn", success |-> FALSE, duration |-> 0, attempts |-> 0]
  BY DEF Absent, Torn, File, NoResult
<1> QED BY <1>1

\* Reading a duration back loses a millisecond at most, and never the last one.
LEMMA ReadBackClose ==
  ASSUME NEW d \in Nat
  PROVE  ReadBack(d) \in Nat /\ ReadBack(d) <= d /\ d <= ReadBack(d) + 1 /\ (d > 0 => ReadBack(d) > 0)
BY StoreAssumption DEF ReadBack

LEMMA ResultsAreTyped ==
  ASSUME NEW r \in Outcomes
  PROVE  /\ r.success \in BOOLEAN /\ r.duration \in Nat /\ r.duration > 0
         /\ r = Stored(r) /\ Entry(r) \in Entries
BY StoreAssumption DEF Outcomes, Stored, Entries

LEMMA EntriesAreTyped ==
  ASSUME NEW f \in Files PROVE Entry(f) \in Entries
<1>1. CASE f \in {Absent, Torn}
  <2>1. f.success = FALSE /\ ReadBack(f.duration) = 0
    BY <1>1, UnusableFiles, StoreAssumption DEF ReadBack
  <2> QED BY <2>1 DEF NoResult, Entry, Entries
<1>2. CASE Stored(f) \in Outcomes
  <2>1. Entry(f) = Entry(Stored(f))
    BY DEF Entry, Stored
  <2> QED BY <1>2, <2>1 DEF Entries
<1> QED BY <1>1, <1>2 DEF Files

\* A file that is whole holds a result and a count.
LEMMA FilesAreTyped ==
  ASSUME NEW f \in Files
  PROVE  /\ f.kind \in {"absent", "torn", "whole"}
         /\ f.success \in BOOLEAN /\ f.duration \in Nat /\ f.attempts \in Nat
         /\ f.kind = "whole" => Stored(f) \in Outcomes
<1>1. CASE f \in {Absent, Torn}
  <2>1. f.kind \in {"absent", "torn"} /\ f.duration = 0 /\ f.attempts = 0
    BY <1>1, UnusableFiles
  <2>2. f.success \in BOOLEAN
    BY <1>1, UnusableFiles, Zenon
  <2>3. f.duration \in Nat /\ f.attempts \in Nat /\ f.kind \in {"absent", "torn", "whole"} /\ f.kind # "whole"
    BY <2>1
  <2> QED BY <2>2, <2>3
<1>2. CASE f \in [kind : {"whole"}, success : BOOLEAN, duration : Nat, attempts : Nat] /\ Stored(f) \in Outcomes
  BY <1>2
<1> QED BY <1>1, <1>2 DEF Files

\* What is merged is a file again.
LEMMA MergedIsFile ==
  ASSUME NEW f \in Files, NEW r \in Outcomes PROVE Merged(f, r) \in Files /\ Begun(r) \in Files
<1>1. \A e \in Outcomes, n \in Nat : File("whole", e, n) \in Files
  <2> SUFFICES ASSUME NEW e \in Outcomes, NEW n \in Nat PROVE File("whole", e, n) \in Files
    OBVIOUS
  <2>1. e.success \in BOOLEAN /\ e.duration \in Nat /\ e = Stored(e)
    BY ResultsAreTyped
  <2> QED BY <2>1 DEF File, Files, Stored
<1>2. f.kind = "whole" => f.attempts + 1 \in Nat /\ Kept(f, r) \in Outcomes
  BY FilesAreTyped DEF Kept
<1> QED BY <1>1, <1>2 DEF Merged, Begun

LEMMA StoreInitially == Init => TypeOK
<1> SUFFICES ASSUME Init PROVE TypeOK
  OBVIOUS
<1>1. IsFiniteSet(Keys) => Cardinality(Keys) \in Nat
  BY FS_CardinalityType
<1> QED
  BY <1>1, StoreAssumption
     DEF Init, TypeOK, Files, Entries, WriterPc, LoadPc, Loads

\* A step of a worker changes its own entries only, within their types.
LEMMA DecideTyped ==
  ASSUME TypeOK, NEW w \in Writers, Decide(w) PROVE TypeOK'
<1>1. PICK r \in Results[w] :
        /\ new' = [new EXCEPT ![w] = r]
        /\ \/ out' = [out EXCEPT ![w] = Merged(file[KeyOf[w]], r)] /\ UNCHANGED <<blind, unread>>
           \/ ReadFails /\ out' = [out EXCEPT ![w] = Begun(r)] /\ blind' = blind \cup {w}
  BY DEF Decide
<1>2. /\ Merged(file[KeyOf[w]], r) \in Files /\ Begun(r) \in Files /\ r \in Outcomes
      /\ blind' \subseteq Writers /\ unread' \in 0..MaxUnread
  <2>1. r \in Outcomes
    BY DEF Outcomes
  <2>2. blind' \subseteq Writers /\ unread' \in 0..MaxUnread
    BY <1>1, StoreAssumption DEF ReadFails, TypeOK
  <2> QED BY <2>1, <2>2, MergedIsFile, StoreAssumption DEF TypeOK
<1>3. runs' \in [Writers -> Nat] /\ \A v \in Writers : runs'[v] <= MaxRuns[v]
  <2>1. runs' = [runs EXCEPT ![w] = @ + 1] /\ runs[w] < MaxRuns[w]
    BY DEF Decide
  <2>2. MaxRuns \in [Writers -> Nat] /\ runs \in [Writers -> Nat] /\ \A v \in Writers : runs[v] <= MaxRuns[v]
    BY StoreAssumption DEF TypeOK
  <2> QED BY <2>1, <2>2
<1>4. overlap' \in [Loads -> SUBSET Keys] /\ alone' \subseteq Writers
  <2>1. KeyOf[w] \in Keys /\ overlap \in [Loads -> SUBSET Keys] /\ alone \subseteq Writers
    BY StoreAssumption DEF TypeOK
  <2>2. overlap' = [l \in Loads |-> IF lpc[l] = "idle" THEN overlap[l] ELSE overlap[l] \cup {KeyOf[w]}]
        /\ alone' = IF Quiet THEN alone \cup {w} ELSE alone \ {w}
    BY DEF Decide
  <2> QED BY <2>1, <2>2
<1> QED
  <2>1. wpc' \in [Writers -> WriterPc]
    BY DEF Decide, TypeOK, WriterPc
  <2>2. new' \in [Writers -> Outcomes \cup {NoResult}] /\ out' \in [Writers -> Files]
    BY <1>1, <1>2 DEF TypeOK
  <2> QED BY <1>2, <1>3, <1>4, <2>1, <2>2 DEF Decide, TypeOK, diskVars, cacheVars

LEMMA WriteTyped ==
  ASSUME TypeOK, NEW w \in Writers, Truncate(w) \/ Write(w) \/ WriteFails(w) PROVE TypeOK'
<1>1. Torn \in Files /\ Absent \in Files /\ NoResult \in Outcomes \cup {NoResult} /\ KeyOf[w] \in Keys
  BY StoreAssumption DEF Files, Entries
<1>2. Fastest(w, KeyOf[w]) \in Nat /\ Counted(w, KeyOf[w]) \in Nat
  <2>1. new[w].success => new[w].duration \in Nat
    BY ResultsAreTyped DEF TypeOK, NoResult
  <2> QED BY <1>1, <2>1 DEF Fastest, Counted, TypeOK
<1>3. CASE Truncate(w)
  BY <1>1, <1>3 DEF Truncate, TypeOK, WriterPc, cacheVars, loadVars, meetVars
<1>4. CASE Write(w)
  <2>1. out' \in [Writers -> Files] /\ new' \in [Writers -> Outcomes \cup {NoResult}] /\ wpc' \in [Writers -> WriterPc]
        /\ blind' \subseteq Writers
    BY <1>1, <1>4 DEF Write, Forget, TypeOK, WriterPc
  <2>2. file' \in [Keys -> Files] /\ best' \in [Keys -> Nat] /\ tries' \in [Keys -> Nat]
    BY <1>1, <1>2, <1>4 DEF Write, TypeOK
  <2> QED BY <1>4, <2>1, <2>2 DEF Write, TypeOK, cacheVars, loadVars, meetVars
<1>5. CASE WriteFails(w)
  <2>1. out' \in [Writers -> Files] /\ new' \in [Writers -> Outcomes \cup {NoResult}] /\ wpc' \in [Writers -> WriterPc]
        /\ blind' \subseteq Writers
    BY <1>1, <1>5 DEF WriteFails, Forget, TypeOK, WriterPc
  <2>2. best' \in [Keys -> Nat] /\ tries' \in [Keys -> Nat]
    <3>1. CASE wpc[w] = "open"
      BY <1>5, <3>1 DEF WriteFails, TypeOK
    <3>2. CASE wpc[w] # "open"
      <4>1. best' = [best EXCEPT ![KeyOf[w]] = 0] /\ tries' = [tries EXCEPT ![KeyOf[w]] = 0]
        BY <1>5, <3>2 DEF WriteFails
      <4> QED BY <1>1, <4>1 DEF TypeOK
    <3> QED BY <3>1, <3>2
  <2> QED BY <1>5, <2>1, <2>2 DEF WriteFails, TypeOK, cacheVars, loadVars, meetVars
<1> QED BY <1>3, <1>4, <1>5

LEMMA UpdateTyped ==
  ASSUME TypeOK, NEW w \in Writers, LoadSingle(w) \/ InsertSingle(w) \/ AddModel(w) PROVE TypeOK'
<1>1. NoResult \in Entries /\ KeyOf[w] \in Keys
  BY StoreAssumption DEF Entries
<1>2. CASE LoadSingle(w)
  <2>1. stale' \subseteq Keys /\ unread' \in 0..MaxUnread
    BY <1>1, <1>2, StoreAssumption DEF LoadSingle, ReadFails, TypeOK
  <2>2. Entry(file[KeyOf[w]]) \in Entries
    BY <1>1, EntriesAreTyped DEF TypeOK
  <2>3. got' \in [Writers -> Entries]
    BY <1>2, <2>2 DEF LoadSingle, TypeOK
  <2>4. wpc' \in [Writers -> WriterPc]
    BY <1>2 DEF LoadSingle, TypeOK, WriterPc
  <2> QED BY <1>2, <2>1, <2>3, <2>4 DEF LoadSingle, TypeOK, diskVars, cacheVars
<1>3. CASE InsertSingle(w)
  BY <1>1, <1>3 DEF InsertSingle, TypeOK, WriterPc, diskVars, loadVars, meetVars
<1>4. CASE AddModel(w)
  BY <1>1, <1>4 DEF AddModel, TypeOK, WriterPc, diskVars
<1> QED BY <1>2, <1>3, <1>4

\* A listing leaves out some files, which then count as not read.
LEMMA ListingMisses ==
  ASSUME NEW l \in Loads, ListFiles(l)
  PROVE  \E missed \in SUBSET Keys :
           /\ listed' = [listed EXCEPT ![l] = {k \in Keys : file[k].kind # "absent"} \ missed]
           /\ \/ missed = {} /\ overlap' = overlap
              \/ overlap' = [overlap EXCEPT ![l] = @ \cup missed]
<1> DEFINE present == {k \in Keys : file[k].kind # "absent"}
<1>1. CASE listed' = [listed EXCEPT ![l] = present] /\ overlap' = overlap
  <2>1. present \ {} = present
    OBVIOUS
  <2> QED BY <1>1, <2>1
<1>2. CASE \E missed \in SUBSET present : /\ listed' = [listed EXCEPT ![l] = present \ missed]
                                         /\ overlap' = [overlap EXCEPT ![l] = @ \cup missed]
  BY <1>2
<1> QED BY <1>1, <1>2 DEF ListFiles

LEMMA LoadTyped ==
  ASSUME TypeOK, NEW l \in Loads, Load(l) PROVE TypeOK'
<1>1. NoResult \in Entries
  BY DEF Entries
<1>2. CASE ListFiles(l)
  <2>1. unread' \in 0..MaxUnread
    BY <1>2, StoreAssumption DEF ListFiles, ReadFails, TypeOK
  <2>2. PICK missed \in SUBSET Keys :
          /\ listed' = [listed EXCEPT ![l] = {k \in Keys : file[k].kind # "absent"} \ missed]
          /\ overlap' = overlap \/ overlap' = [overlap EXCEPT ![l] = @ \cup missed]
    BY <1>2, ListingMisses
  <2>3. listed' \in [Loads -> SUBSET Keys] /\ overlap' \in [Loads -> SUBSET Keys]
    <3>1. listed \in [Loads -> SUBSET Keys] /\ overlap \in [Loads -> SUBSET Keys]
      BY DEF TypeOK
    <3> QED BY <2>2, <3>1
  <2> QED BY <1>2, <2>1, <2>3 DEF ListFiles, TypeOK, LoadPc, diskVars, writerVars, cacheVars
<1>3. CASE \E k \in Keys : ReadFile(l, k)
  <2> PICK k \in Keys : ReadFile(l, k)
    BY <1>3
  <2>1. Entry(file[k]) \in Entries
    BY EntriesAreTyped DEF TypeOK
  <2>2. loaded' \in [Loads -> [Keys -> Entries]]
    <3>1. CASE loaded' = [loaded EXCEPT ![l][k] = Entry(file[k])]
      BY <2>1, <3>1 DEF TypeOK
    <3>2. CASE UNCHANGED loaded
      BY <3>2 DEF TypeOK
    <3> QED BY <3>1, <3>2 DEF ReadFile
  <2>3. overlap' \in [Loads -> SUBSET Keys]
    <3>1. overlap' = overlap \/ overlap' = [overlap EXCEPT ![l] = @ \cup {k}]
      BY DEF ReadFile
    <3>2. overlap \in [Loads -> SUBSET Keys]
      BY DEF TypeOK
    <3> QED BY <3>1, <3>2
  <2>4. unread' \in 0..MaxUnread
    <3>1. unread' = unread \/ ReadFails
      BY DEF ReadFile
    <3> QED BY <3>1, StoreAssumption DEF ReadFails, TypeOK
  <2> QED BY <2>2, <2>3, <2>4 DEF ReadFile, TypeOK, diskVars, writerVars, cacheVars
<1>4. CASE InsertAll(l)
  BY <1>4 DEF InsertAll, TypeOK, LoadPc, diskVars, writerVars, meetVars
<1>5. CASE ReplaceModels(l)
  <2>1. Found(l) \subseteq Keys
    BY DEF Found
  <2>2. Cardinality(Found(l)) \in 0..Cardinality(Keys)
    BY <2>1, FS_Subset, FS_CardinalityType, StoreAssumption
  <2>3. loaded' \in [Loads -> [Keys -> Entries]]
    BY <1>1, <1>5 DEF ReplaceModels, TypeOK
  <2>4. stale' \subseteq Keys /\ overlap' \in [Loads -> SUBSET Keys] /\ due' \in BOOLEAN
    BY <1>5 DEF ReplaceModels, TypeOK
  <2> QED BY <1>5, <2>1, <2>2, <2>3, <2>4 DEF ReplaceModels, TypeOK, LoadPc, diskVars, writerVars
<1> QED BY <1>2, <1>3, <1>4, <1>5 DEF Load

LEMMA ServerTyped ==
  ASSUME TypeOK, BeginRefresh \/ Tick \/ Crash PROVE TypeOK'
<1>1. CASE BeginRefresh
  <2>1. overlap' \in [Loads -> SUBSET Keys]
    BY <1>1 DEF BeginRefresh, TypeOK
  <2> QED BY <1>1, <2>1 DEF BeginRefresh, TypeOK, LoadPc, diskVars, writerVars, cacheVars
<1>2. CASE Tick
  BY <1>2 DEF Tick, TypeOK, diskVars, writerVars, cacheVars, meetVars
<1>3. CASE Crash
  <2>1. crashes' \in 0..MaxCrashes
    BY <1>3, StoreAssumption DEF Crash, TypeOK
  <2>2. best' \in [Keys -> Nat] /\ tries' \in [Keys -> Nat] /\ UNCHANGED <<file, runs>>
    BY <1>3 DEF Crash, TypeOK
  <2>3. Cardinality(Keys) \in Nat
    BY StoreAssumption, FS_CardinalityType
  <2> QED
    BY <1>3, <2>1, <2>2, <2>3 DEF Crash, Started, TypeOK, Files, Entries, WriterPc, LoadPc
<1> QED BY <1>1, <1>2, <1>3

LEMMA StoreTyped == TypeOK /\ [Next]_vars => TypeOK'
<1>1. ASSUME TypeOK, UNCHANGED vars PROVE TypeOK'
  BY <1>1 DEF vars, diskVars, writerVars, cacheVars, loadVars, meetVars, TypeOK
<1> QED
  BY <1>1, DecideTyped, WriteTyped, UpdateTyped, LoadTyped, ServerTyped DEF Next, Save

\* Every variable of the store keeps its type: what is on disk is a file that
\* load_cached_result can read, or one that was being written.
THEOREM StoreTypeCorrect == Spec => []TypeOK
BY StoreInitially, StoreTyped, PTL DEF Spec

-----------------------------------------------------------------------------
(* The contract of save_result. *)

LEMMA DiskInitially == Init => DiskInv
BY StoreAssumption DEF Init, DiskInv, FilesSound, Sound, DecisionsHold, BlindDecided, Absent, File

\* From a sound file, the decision for its next write is right.
LEMMA MergeIsRight ==
  ASSUME TypeOK, NEW k \in Keys, Sound(k), NEW r \in Outcomes,
         NEW m, m = Merged(file[k], r),
         NEW fastest, fastest = IF r.success /\ (best[k] = 0 \/ r.duration < best[k]) THEN r.duration ELSE best[k]
  PROVE  /\ m.kind = "whole" /\ m.attempts = tries[k] + 1
         /\ m.success = (fastest > 0)
         /\ fastest > 0 => ReadBack(m.duration) <= fastest /\ fastest <= m.duration
<1>1. /\ r.success \in BOOLEAN /\ r.duration \in Nat /\ r.duration > 0
      /\ best[k] \in Nat /\ tries[k] \in Nat /\ file[k] \in Files
  BY ResultsAreTyped DEF TypeOK
<1>2. ReadBack(r.duration) <= r.duration
  BY <1>1, ReadBackClose
<1>3. CASE tries[k] > 0
  <2>1. /\ file[k].kind = "whole" /\ file[k].attempts = tries[k]
        /\ file[k].success = (best[k] > 0)
        /\ best[k] > 0 => ReadBack(file[k].duration) <= best[k] /\ best[k] <= file[k].duration
    BY <1>3 DEF Sound
  <2>2. ReadBack(file[k].duration) \in Nat /\ file[k].duration \in Nat /\ file[k].success \in BOOLEAN
        /\ ReadBack(file[k].duration) <= file[k].duration
    BY <1>1, ReadBackClose, FilesAreTyped
  <2>3. CASE Better(file[k], r)
    <3>1. m = [kind |-> "whole", success |-> r.success, duration |-> r.duration, attempts |-> tries[k] + 1]
      BY <2>1, <2>3 DEF Merged, File, Kept
    <3>2. best[k] = 0 \/ (r.success /\ r.duration < best[k])
      <4>1. CASE file[k].success
        BY <1>1, <2>1, <2>2, <2>3, <4>1 DEF Better
      <4>2. CASE ~file[k].success
        <5>1. ~(best[k] > 0)
          BY <2>1, <4>2
        <5> QED BY <1>1, <5>1
      <4> QED BY <4>1, <4>2
    <3> QED BY <1>1, <1>2, <3>1, <3>2
  <2>4. CASE ~Better(file[k], r)
    <3>1. m = [kind |-> "whole", success |-> file[k].success, duration |-> file[k].duration, attempts |-> tries[k] + 1]
      BY <2>1, <2>4 DEF Merged, File, Kept, Stored
    <3>2. best[k] > 0 /\ ~(r.success /\ r.duration < ReadBack(file[k].duration)) /\ file[k].success
      BY <1>1, <2>1, <2>4, Zenon DEF Better
    <3>3. fastest > 0 /\ ReadBack(file[k].duration) <= fastest /\ fastest <= file[k].duration
      BY <1>1, <2>1, <2>2, <3>2
    <3> QED BY <2>1, <3>1, <3>2, <3>3
  <2> QED BY <2>3, <2>4
<1>4. CASE tries[k] = 0
  <2>1. file[k].kind # "whole" /\ best[k] = 0
    BY <1>4 DEF Sound
  <2>2. m = [kind |-> "whole", success |-> r.success, duration |-> r.duration, attempts |-> 1]
    BY <2>1 DEF Merged, Begun, File
  <2> QED BY <1>1, <1>2, <1>4, <2>1, <2>2
<1> QED BY <1>1, <1>3, <1>4

LEMMA DecideSound ==
  ASSUME TypeOK, DiskInv, OneWriterPerFile, NEW w \in Writers, Decide(w) PROVE DiskInv'
<1> DEFINE k == KeyOf[w]
<1>1. PICK r \in Results[w] :
        /\ new' = [new EXCEPT ![w] = r]
        /\ \/ out' = [out EXCEPT ![w] = Merged(file[k], r)] /\ UNCHANGED blind
           \/ out' = [out EXCEPT ![w] = Begun(r)] /\ blind' = blind \cup {w}
  BY DEF Decide
<1>2. /\ wpc[w] = "idle" /\ wpc' = [wpc EXCEPT ![w] = "open"] /\ UNCHANGED <<file, best, tries>>
      /\ k \in Keys /\ r \in Outcomes
  BY StoreAssumption DEF Decide, diskVars, Outcomes
<1>3. Sound(k) /\ w \notin blind
  BY <1>2 DEF DiskInv, FilesSound, BlindDecided, OneWriterPerFile
<1>4. FilesSound'
  BY <1>2 DEF DiskInv, FilesSound, Sound, TypeOK
<1>5. DecisionHolds(w)'
  <2>0. new'[w] = r /\ best'[k] = best[k] /\ tries'[k] = tries[k]
    BY <1>1, <1>2 DEF TypeOK
  <2>1. CASE out' = [out EXCEPT ![w] = Merged(file[k], r)] /\ UNCHANGED blind
    <3>1. out'[w] = Merged(file[k], r) /\ Counted(w, k)' = tries[k] + 1
      BY <1>2, <1>3, <2>1 DEF Counted, TypeOK
    <3>2. Fastest(w, k)' = IF r.success /\ (best[k] = 0 \/ r.duration < best[k]) THEN r.duration ELSE best[k]
      BY <1>3, <2>0, <2>1 DEF Fastest
    <3>3. /\ out'[w].kind = "whole" /\ out'[w].attempts = Counted(w, k)'
          /\ out'[w].success = (Fastest(w, k)' > 0)
          /\ Fastest(w, k)' > 0 => ReadBack(out'[w].duration) <= Fastest(w, k)'
                                  /\ Fastest(w, k)' <= out'[w].duration
      BY <1>2, <1>3, <3>1, <3>2, MergeIsRight
    <3> QED BY <3>3 DEF DecisionHolds
  <2>2. CASE out' = [out EXCEPT ![w] = Begun(r)] /\ blind' = blind \cup {w}
    <3>1. /\ out'[w] = [kind |-> "whole", success |-> r.success, duration |-> r.duration, attempts |-> 1]
          /\ Counted(w, k)' = 1
      BY <2>2 DEF Begun, File, Counted, TypeOK
    <3>2. r.success \in BOOLEAN /\ r.duration \in Nat /\ r.duration > 0 /\ ReadBack(r.duration) <= r.duration
      BY <1>2, ResultsAreTyped, ReadBackClose
    <3>3. Fastest(w, k)' = IF r.success THEN r.duration ELSE 0
      BY <2>0, <2>2, <3>2 DEF Fastest
    <3> QED BY <3>1, <3>2, <3>3 DEF DecisionHolds
  <2> QED BY <1>1, <2>1, <2>2
<1>6. ASSUME NEW v \in Writers, v # w
      PROVE  DecisionHolds(v)' = DecisionHolds(v) /\ wpc'[v] = wpc[v]
  <2>1. UNCHANGED <<wpc[v], new[v], out[v]>> /\ (v \in blind' <=> v \in blind)
    BY <1>1, <1>2, <1>6 DEF TypeOK
  <2>2. UNCHANGED <<best, tries>>
    BY <1>2
  <2> QED BY <2>1, <2>2 DEF DecisionHolds, Fastest, Counted
<1>7. BlindDecided'
  BY <1>1, <1>2 DEF DiskInv, BlindDecided, TypeOK
<1> QED BY <1>2, <1>4, <1>5, <1>6, <1>7 DEF DiskInv, DecisionsHold, TypeOK

LEMMA WriteSound ==
  ASSUME TypeOK, DiskInv, OneWriterPerFile, NEW w \in Writers, Truncate(w) \/ Write(w) \/ WriteFails(w)
  PROVE  DiskInv'
<1> DEFINE k == KeyOf[w]
<1>0. k \in Keys /\ \A v \in Writers : KeyOf[v] \in Keys
  BY StoreAssumption
<1>1. \A v \in Writers : v # w => KeyOf[v] # k
  BY DEF OneWriterPerFile
<1>2. /\ wpc[w] \in {"open", "write"} /\ DecisionHolds(w) /\ (wpc[w] = "write" => file[k] = Torn)
      /\ best[k] \in Nat /\ tries[k] \in Nat
  BY <1>0 DEF Truncate, Write, WriteFails, DiskInv, DecisionsHold, TypeOK
<1>3. \A j \in Keys : j # k => UNCHANGED <<file[j], best[j], tries[j]>>
  BY <1>0 DEF Truncate, Write, WriteFails, TypeOK
<1>4. \A v \in Writers : v # w => UNCHANGED <<wpc[v], new[v], out[v]>> /\ (v \in blind' <=> v \in blind)
  BY DEF Truncate, Write, WriteFails, Forget, TypeOK
<1>5. \A j \in Keys : j # k => (Sound(j) \/ \E v \in Writers : KeyOf[v] = j /\ wpc[v] = "write")'
  BY <1>3, <1>4 DEF DiskInv, FilesSound, Sound
<1>6. \A v \in Writers : v # w =>
        /\ wpc'[v] \in {"open", "write"} => DecisionHolds(v)'
        /\ wpc'[v] = "write" => file'[KeyOf[v]] = Torn
  BY <1>0, <1>1, <1>3, <1>4 DEF DiskInv, DecisionsHold, DecisionHolds, Fastest, Counted
<1>10. BlindDecided'
  BY <1>4 DEF Truncate, Write, WriteFails, Forget, DiskInv, BlindDecided, TypeOK
<1>7. CASE Truncate(w)
  <2>1. wpc'[w] = "write" /\ file'[k] = Torn /\ UNCHANGED <<best, tries, new, out, blind>>
    BY <1>0, <1>7 DEF Truncate, TypeOK
  <2>2. DecisionHolds(w)'
    BY <1>2, <2>1 DEF DecisionHolds, Fastest, Counted
  <2> QED BY <1>5, <1>6, <1>10, <2>1, <2>2 DEF DiskInv, FilesSound, DecisionsHold
<1>8. CASE Write(w)
  <2>1. /\ wpc'[w] = "load" /\ file'[k] = out[w]
        /\ best'[k] = Fastest(w, k) /\ tries'[k] = Counted(w, k) /\ Counted(w, k) > 0
    BY <1>0, <1>2, <1>8 DEF Write, Counted, TypeOK
  <2>2. Sound(k)'
    BY <1>2, <2>1 DEF Sound, DecisionHolds
  <2> QED BY <1>5, <1>6, <1>10, <2>1, <2>2 DEF DiskInv, FilesSound, DecisionsHold
<1>9. CASE WriteFails(w)
  <2>1. wpc'[w] = "idle" /\ UNCHANGED file
    BY <1>9 DEF WriteFails, TypeOK
  <2>2. Sound(k)'
    <3>1. CASE wpc[w] = "open"
      BY <1>0, <1>1, <1>9, <3>1 DEF WriteFails, DiskInv, FilesSound, Sound
    <3>2. CASE wpc[w] = "write"
      <4>1. best'[k] = 0 /\ tries'[k] = 0 /\ file'[k] = Torn
        BY <1>0, <1>2, <1>9, <2>1, <3>2 DEF WriteFails, TypeOK
      <4> QED BY <4>1 DEF Sound, Torn, File
    <3> QED BY <1>2, <3>1, <3>2
  <2> QED BY <1>5, <1>6, <1>10, <2>1, <2>2 DEF DiskInv, FilesSound, DecisionsHold
<1> QED BY <1>7, <1>8, <1>9

\* Nothing else writes the files; a crash loses what was being written.
LEMMA OthersSound ==
  ASSUME TypeOK, DiskInv,
         \/ \E w \in Writers : LoadSingle(w) \/ InsertSingle(w) \/ AddModel(w)
         \/ \E l \in Loads : Load(l)
         \/ BeginRefresh \/ Tick \/ UNCHANGED vars
  PROVE  DiskInv'
<1>1. /\ UNCHANGED <<file, best, tries, new, out, blind>>
      /\ \A w \in Writers :
           wpc'[w] = wpc[w] \/ (wpc'[w] \notin {"open", "write"} /\ wpc[w] \notin {"open", "write"})
  <2>1. CASE \E w \in Writers : LoadSingle(w) \/ InsertSingle(w) \/ AddModel(w)
    BY <2>1 DEF LoadSingle, InsertSingle, AddModel, diskVars, TypeOK
  <2>2. CASE \E l \in Loads : Load(l)
    BY <2>2 DEF Load, ListFiles, ReadFile, InsertAll, ReplaceModels, diskVars, writerVars
  <2>3. CASE BeginRefresh \/ Tick \/ UNCHANGED vars
    BY <2>3 DEF BeginRefresh, Tick, vars, diskVars, writerVars
  <2> QED BY <2>1, <2>2, <2>3
<1>2. \A w \in Writers : DecisionHolds(w)' <=> DecisionHolds(w)
  BY <1>1 DEF DecisionHolds, Fastest, Counted
<1>3. FilesSound'
  BY <1>1 DEF DiskInv, FilesSound, Sound
<1>4. DecisionsHold' /\ BlindDecided'
  BY <1>1, <1>2 DEF DiskInv, DecisionsHold, BlindDecided, TypeOK
<1> QED BY <1>3, <1>4 DEF DiskInv

LEMMA CrashSound ==
  ASSUME TypeOK, DiskInv, Crash PROVE DiskInv'
<1>1. /\ \A w \in Writers : wpc'[w] = "idle"
      /\ UNCHANGED file /\ blind' = {}
      /\ \A k \in Keys : best'[k] = (IF Torn_(k) THEN 0 ELSE best[k]) /\ tries'[k] = (IF Torn_(k) THEN 0 ELSE tries[k])
  BY DEF Crash, Started
<1>2. ASSUME NEW k \in Keys PROVE Sound(k)'
  <2>1. CASE Torn_(k)
    BY <1>1, <2>1 DEF Torn_, Sound
  <2>2. CASE ~Torn_(k)
    <3>1. Sound(k)
      BY <2>2 DEF DiskInv, FilesSound, DecisionsHold, Torn_, Torn, File
    <3> QED BY <1>1, <2>2, <3>1 DEF Sound
  <2> QED BY <2>1, <2>2
<1> QED BY <1>1, <1>2 DEF DiskInv, FilesSound, DecisionsHold, BlindDecided

LEMMA DiskNext == OneWriterPerFile /\ TypeOK /\ DiskInv /\ [Next]_vars => DiskInv'
BY DecideSound, WriteSound, OthersSound, CrashSound DEF Next, Save

\* With one worker for each file, and however often runs end, files cannot be read
\* or written and the server dies: between runs a file is a success if there was
\* one since it was begun, none was faster than it reads, and it counts all runs.
THEOREM FilesAreBest == ASSUME OneWriterPerFile PROVE Spec => []FileIsBest
<1>1. TypeOK /\ DiskInv => FileIsBest
  BY DEF TypeOK, DiskInv, FilesSound, Sound, FileIsBest, Busy
<1>2. TypeOK /\ DiskInv /\ [Next]_vars => DiskInv'
  BY DiskNext
<1> QED BY <1>1, <1>2, DiskInitially, StoreTypeCorrect, PTL DEF Spec

\* Under the same condition the rule of save_result holds: a file to which a success
\* was written is never left as a failure, unless a run that could not read it, a
\* write that failed or a crash has begun it again.
THEOREM SuccessesStay == ASSUME OneWriterPerFile PROVE Spec => []SuccessNotOverwritten
<1>1. TypeOK /\ DiskInv => SuccessNotOverwritten
  <2> SUFFICES ASSUME TypeOK, DiskInv, NEW k \in Keys, ~Busy(k), best[k] > 0
               PROVE  file[k].success
    BY DEF SuccessNotOverwritten
  <2>1. Sound(k)
    BY DEF DiskInv, FilesSound, Busy
  <2>2. best[k] \in Nat /\ tries[k] \in Nat
    BY DEF TypeOK
  <2>3. tries[k] > 0
    BY <2>1, <2>2 DEF Sound
  <2>4. file[k].success = (best[k] > 0)
    BY <2>1, <2>3, Zenon DEF Sound
  <2> QED BY <2>4, Zenon
<1>2. TypeOK /\ DiskInv /\ [Next]_vars => DiskInv'
  BY DiskNext
<1> QED BY <1>1, <1>2, DiskInitially, StoreTypeCorrect, PTL DEF Spec

-----------------------------------------------------------------------------
(* The cache.  A load that met no save of a file has read what it says, and*)
(* a save that met no load has left it in the cache.                       *)

Agree(k) ==
  file[k].kind = "whole" => cache[k] = Entry(file[k]) /\ ModelOf[k] \in models

\* Nobody is between truncating the file and adding its model.
Settled(k) == \A w \in Writers : KeyOf[w] = k => wpc[w] \in {"idle", "open"}

SettledAgree == Quiet => \A k \in Keys \ stale : Settled(k) => Agree(k)

AloneAgree ==
  \A w \in alone :
    /\ Quiet
    /\ wpc[w] = "insert" => got[w] = Entry(file[KeyOf[w]])
    /\ wpc[w] = "model" => cache[KeyOf[w]] = Entry(file[KeyOf[w]])

\* How far a load is with a file that nobody has saved since it began.
Progress(l, k) ==
  file[k].kind = "whole" =>
    /\ lpc[l] = "read" => k \in listed[l] \/ loaded[l][k] = Entry(file[k])
    /\ lpc[l] = "models" => loaded[l][k] = Entry(file[k]) /\ cache[k] = Entry(file[k])

LoadsAgree ==
  \A l \in Loads : lpc[l] # "idle" => \A k \in Keys \ overlap[l] :
    /\ ~Busy(k)
    /\ \A m \in Loads : m # l => lpc[m] = "idle"
    /\ Progress(l, k)

CacheInv == SettledAgree /\ AloneAgree /\ LoadsAgree

LEMMA CacheInitially == Init => CacheInv
<1> SUFFICES ASSUME Init PROVE CacheInv
  OBVIOUS
<1>1. ~Quiet
  BY DEF Init, Quiet, Loads
<1>2. SettledAgree /\ AloneAgree
  BY <1>1 DEF Init, SettledAgree, AloneAgree
<1>3. LoadsAgree
  BY DEF Init, LoadsAgree, Loads, Busy, Progress, Absent, File
<1> QED BY <1>2, <1>3 DEF CacheInv

LEMMA WholeIsFound ==
  ASSUME TypeOK, NEW k \in Keys, file[k].kind = "whole" PROVE Entry(file[k]) # NoResult
<1>1. file[k].duration \in Nat /\ file[k].duration > 0
  <2>1. Stored(file[k]) \in Outcomes
    BY FilesAreTyped DEF TypeOK
  <2>2. Stored(file[k]).duration \in Nat /\ Stored(file[k]).duration > 0
    BY <2>1, ResultsAreTyped
  <2> QED BY <2>2 DEF Stored
<1>2. Entry(file[k]).duration > 0
  BY <1>1, ReadBackClose DEF Entry
<1> QED BY <1>2 DEF NoResult

\* A worker's step on its own file, as the other files see it.
OwnStep(w) ==
  /\ UNCHANGED <<lpc, listed, loaded, alone, overlap, models>> /\ stale \subseteq stale'
  /\ \A k \in Keys : k # KeyOf[w] => UNCHANGED <<file[k], cache[k]>>
  /\ \A v \in Writers : v # w => UNCHANGED <<wpc[v], got[v]>>
  /\ wpc[w] # "idle"

LEMMA OwnStepKeeps ==
  ASSUME OneWriterPerFile, TypeOK, CacheInv, NEW w \in Writers, OwnStep(w),
         Quiet /\ KeyOf[w] \notin stale' /\ Settled(KeyOf[w])' => Agree(KeyOf[w])',
         w \in alone /\ wpc'[w] = "insert" => got'[w] = Entry(file'[KeyOf[w]]),
         w \in alone /\ wpc'[w] = "model" => cache'[KeyOf[w]] = Entry(file'[KeyOf[w]])
  PROVE  CacheInv'
<1>1. KeyOf \in [Writers -> Keys] /\ (Quiet' <=> Quiet) /\ alone \subseteq Writers
  BY StoreAssumption DEF OwnStep, Quiet, TypeOK
<1>2. SettledAgree'
  BY <1>1 DEF OwnStep, CacheInv, SettledAgree, Settled, Agree, OneWriterPerFile
<1>3. AloneAgree'
  <2> SUFFICES ASSUME NEW v \in alone
               PROVE  /\ Quiet
                      /\ wpc'[v] = "insert" => got'[v] = Entry(file'[KeyOf[v]])
                      /\ wpc'[v] = "model" => cache'[KeyOf[v]] = Entry(file'[KeyOf[v]])
    BY <1>1 DEF OwnStep, AloneAgree
  <2>1. CASE v = w
    BY <2>1 DEF CacheInv, AloneAgree
  <2>2. CASE v # w
    <3>1. KeyOf[v] # KeyOf[w] /\ KeyOf[v] \in Keys
      BY <1>1, <2>2 DEF OneWriterPerFile
    <3> QED BY <1>1, <2>2, <3>1 DEF OwnStep, CacheInv, AloneAgree
  <2> QED BY <2>1, <2>2
<1>4. LoadsAgree'
  <2> SUFFICES ASSUME NEW l \in Loads, lpc[l] # "idle", NEW k \in Keys \ overlap[l]
               PROVE  (~Busy(k) /\ (\A m \in Loads : m # l => lpc[m] = "idle") /\ Progress(l, k))'
    BY DEF OwnStep, LoadsAgree
  <2>1. ~Busy(k) /\ (\A m \in Loads : m # l => lpc[m] = "idle") /\ Progress(l, k)
    BY DEF CacheInv, LoadsAgree
  <2>2. k # KeyOf[w]
    BY <2>1 DEF Busy, OwnStep
  <2> QED BY <2>1, <2>2 DEF OwnStep, Busy, Progress, OneWriterPerFile
<1> QED BY <1>2, <1>3, <1>4 DEF CacheInv

LEMMA SaveKeepsCache ==
  ASSUME OneWriterPerFile, TypeOK, DiskInv, CacheInv, NEW w \in Writers, Save(w)
  PROVE  CacheInv'
<1>0. KeyOf[w] \in Keys /\ \A v \in Writers : KeyOf[v] = KeyOf[w] => v = w
  BY StoreAssumption DEF OneWriterPerFile
<1>1. CASE Decide(w)
  <2>1. /\ wpc' = [wpc EXCEPT ![w] = "open"] /\ wpc[w] = "idle"
        /\ UNCHANGED <<file, cache, models, got, lpc, listed, loaded, stale>>
        /\ overlap' = [l \in Loads |-> IF lpc[l] = "idle" THEN overlap[l] ELSE overlap[l] \cup {KeyOf[w]}]
        /\ alone' = IF Quiet THEN alone \cup {w} ELSE alone \ {w}
    BY <1>1 DEF Decide, diskVars, cacheVars
  <2>2. SettledAgree'
    BY <2>1 DEF CacheInv, SettledAgree, Settled, Agree, Quiet, TypeOK
  <2>3. AloneAgree'
    BY <2>1 DEF CacheInv, AloneAgree, Quiet, TypeOK
  <2>4. LoadsAgree'
    BY <1>0, <2>1 DEF CacheInv, LoadsAgree, Busy, Progress, TypeOK
  <2> QED BY <2>2, <2>3, <2>4 DEF CacheInv
<1>2. CASE Truncate(w)
  <2>1. OwnStep(w) /\ wpc'[w] = "write"
    BY <1>0, <1>2 DEF Truncate, OwnStep, cacheVars, loadVars, meetVars, TypeOK
  <2>2. ~Settled(KeyOf[w])'
    BY <2>1 DEF Settled
  <2> QED BY <2>1, <2>2, OwnStepKeeps
<1>3. CASE Write(w)
  <2>1. OwnStep(w) /\ wpc'[w] = "load"
    BY <1>0, <1>3 DEF Write, OwnStep, cacheVars, loadVars, meetVars, TypeOK
  <2>2. ~Settled(KeyOf[w])'
    BY <2>1 DEF Settled
  <2> QED BY <2>1, <2>2, OwnStepKeeps
<1>4. CASE WriteFails(w)
  <2>1. OwnStep(w) /\ wpc'[w] = "idle" /\ UNCHANGED <<file, cache>> /\ wpc[w] \in {"open", "write"}
    BY <1>0, <1>4 DEF WriteFails, OwnStep, cacheVars, loadVars, meetVars, TypeOK
  <2>2. CASE wpc[w] = "open"
    <3>1. Settled(KeyOf[w])' => Settled(KeyOf[w])
      BY <1>0, <2>1, <2>2 DEF OwnStep, Settled
    <3> QED BY <1>0, <2>1, <3>1, OwnStepKeeps DEF CacheInv, SettledAgree, Agree, OwnStep
  <2>3. CASE wpc[w] = "write"
    <3>1. file'[KeyOf[w]].kind = "torn"
      BY <2>1, <2>3 DEF DiskInv, DecisionsHold, Torn, File
    <3> QED BY <2>1, <3>1, OwnStepKeeps DEF Agree
  <2> QED BY <2>1, <2>2, <2>3
<1>5. CASE LoadSingle(w)
  <2>1. OwnStep(w) /\ UNCHANGED file
    BY <1>0, <1>5 DEF LoadSingle, OwnStep, diskVars, cacheVars, TypeOK
  <2>2. CASE ReadFails /\ wpc' = [wpc EXCEPT ![w] = "idle"] /\ stale' = stale \cup {KeyOf[w]}
    <3>1. wpc'[w] = "idle" /\ KeyOf[w] \in stale'
      BY <2>2 DEF TypeOK
    <3> QED BY <2>1, <3>1, OwnStepKeeps
  <2>3. CASE /\ wpc' = [wpc EXCEPT ![w] = IF file[KeyOf[w]].kind = "whole" THEN "insert" ELSE "idle"]
             /\ got' = [got EXCEPT ![w] = Entry(file[KeyOf[w]])]
    <3>1. /\ wpc'[w] = (IF file[KeyOf[w]].kind = "whole" THEN "insert" ELSE "idle")
          /\ got'[w] = Entry(file[KeyOf[w]])
      BY <2>3 DEF TypeOK
    <3>2. Settled(KeyOf[w])' => Agree(KeyOf[w])'
      BY <2>1, <3>1 DEF Settled, Agree
    <3> QED BY <2>1, <3>1, <3>2, OwnStepKeeps
  <2> QED BY <1>5, <2>2, <2>3 DEF LoadSingle
<1>6. CASE InsertSingle(w)
  <2>1. OwnStep(w) /\ UNCHANGED file /\ wpc'[w] = "model" /\ cache'[KeyOf[w]] = got[w] /\ wpc[w] = "insert"
    BY <1>0, <1>6 DEF InsertSingle, OwnStep, diskVars, loadVars, meetVars, TypeOK
  <2>2. ~Settled(KeyOf[w])'
    BY <2>1 DEF Settled
  <2>3. w \in alone => cache'[KeyOf[w]] = Entry(file'[KeyOf[w]])
    BY <2>1 DEF CacheInv, AloneAgree
  <2> QED BY <2>1, <2>2, <2>3, OwnStepKeeps
<1>7. CASE AddModel(w)
  <2>1. /\ wpc[w] = "model" /\ wpc' = [wpc EXCEPT ![w] = "idle"]
        /\ models' = models \cup {ModelOf[KeyOf[w]]}
        /\ stale' = IF w \in alone THEN stale \ {KeyOf[w]} ELSE stale \cup {KeyOf[w]}
        /\ UNCHANGED <<file, cache, got, lpc, listed, loaded, overlap, alone>>
    BY <1>7 DEF AddModel, diskVars
  <2>2. SettledAgree'
    <3> SUFFICES ASSUME Quiet', NEW k \in Keys \ stale', Settled(k)' PROVE Agree(k)'
      BY DEF SettledAgree
    <3>1. CASE k = KeyOf[w]
      BY <2>1, <3>1 DEF CacheInv, AloneAgree, Agree
    <3>2. CASE k # KeyOf[w]
      <4>1. k \in Keys \ stale /\ Settled(k) /\ Quiet
        BY <2>1, <3>2 DEF Settled, Quiet, TypeOK
      <4> QED BY <2>1, <4>1 DEF CacheInv, SettledAgree, Agree
    <3> QED BY <3>1, <3>2
  <2>3. AloneAgree'
    BY <2>1 DEF CacheInv, AloneAgree, Quiet, TypeOK
  <2>4. LoadsAgree'
    BY <2>1 DEF CacheInv, LoadsAgree, Busy, Progress, TypeOK
  <2> QED BY <2>2, <2>3, <2>4 DEF CacheInv
<1> QED BY <1>1, <1>2, <1>3, <1>4, <1>5, <1>6, <1>7 DEF Save

LEMMA LoadKeepsCache ==
  ASSUME TypeOK, CacheInv, NEW l \in Loads, Load(l)
  PROVE  CacheInv'
<1>1. lpc[l] # "idle" /\ ~Quiet /\ UNCHANGED <<file, wpc, got, alone>>
  BY DEF Load, ListFiles, ReadFile, InsertAll, ReplaceModels, Quiet, diskVars, writerVars, meetVars
<1>2. AloneAgree'
  BY <1>1 DEF CacheInv, AloneAgree
\* No other load is between its steps with a file that it and this one have met.
<1>3. /\ lpc' = [lpc EXCEPT ![l] = lpc'[l]]
      /\ \A m \in Loads : m # l => UNCHANGED <<listed[m], loaded[m], overlap[m]>>
  BY DEF Load, ListFiles, ReadFile, InsertAll, ReplaceModels, meetVars, TypeOK
<1>4. ASSUME NEW m \in Loads, m # l, lpc'[m] # "idle" PROVE Keys \ overlap'[m] = {}
  BY <1>1, <1>3, <1>4 DEF CacheInv, LoadsAgree, TypeOK
<1>5. ASSUME NEW k \in Keys \ overlap[l]
      PROVE  ~Busy(k)' /\ (\A m \in Loads : m # l => lpc'[m] = "idle")
  BY <1>1, <1>3 DEF CacheInv, LoadsAgree, Busy, TypeOK
<1>6. CASE ListFiles(l)
  <2>0. PICK missed \in SUBSET Keys :
          /\ listed' = [listed EXCEPT ![l] = {k \in Keys : file[k].kind # "absent"} \ missed]
          /\ \/ missed = {} /\ overlap' = overlap
             \/ overlap' = [overlap EXCEPT ![l] = @ \cup missed]
    BY <1>6, ListingMisses
  <2>1. /\ lpc'[l] = "read" /\ listed'[l] = {k \in Keys : file[k].kind # "absent"} \ missed
        /\ overlap'[l] = overlap[l] \cup missed
    BY <1>6, <2>0 DEF ListFiles, TypeOK
  <2>2. \A k \in Keys \ overlap'[l] : k \in Keys \ overlap[l] /\ Progress(l, k)'
    BY <1>1, <2>1 DEF Progress
  <2>3. LoadsAgree'
    BY <1>4, <1>5, <2>1, <2>2 DEF LoadsAgree
  <2>4. SettledAgree'
    BY <2>1 DEF SettledAgree, Quiet
  <2> QED BY <1>2, <2>3, <2>4 DEF CacheInv
<1>7. CASE \E j \in Keys : ReadFile(l, j)
  <2> PICK j \in Keys : ReadFile(l, j)
    BY <1>7
  <2>1. /\ lpc[l] = "read" /\ UNCHANGED lpc /\ listed'[l] = listed[l] \ {j}
        /\ \A k \in Keys : k # j => loaded'[l][k] = loaded[l][k]
        /\ \/ loaded'[l][j] = Entry(file[j]) /\ overlap'[l] = overlap[l]
           \/ overlap'[l] = overlap[l] \cup {j}
    <3>1. CASE loaded' = [loaded EXCEPT ![l][j] = Entry(file[j])] /\ UNCHANGED overlap
      BY <3>1 DEF ReadFile, TypeOK
    <3>2. CASE overlap' = [overlap EXCEPT ![l] = @ \cup {j}] /\ UNCHANGED loaded
      BY <3>2 DEF ReadFile, TypeOK
    <3> QED BY <3>1, <3>2 DEF ReadFile
  <2>2. \A k \in Keys \ overlap'[l] : k \in Keys \ overlap[l] /\ Progress(l, k)'
    BY <1>1, <2>1 DEF CacheInv, LoadsAgree, Progress
  <2>3. LoadsAgree'
    BY <1>4, <1>5, <2>1, <2>2 DEF LoadsAgree
  <2>4. SettledAgree'
    BY <1>1, <2>1 DEF SettledAgree, Quiet
  <2> QED BY <1>2, <2>3, <2>4 DEF CacheInv
<1>8. CASE InsertAll(l)
  <2>1. /\ lpc[l] = "read" /\ lpc'[l] = "models" /\ listed[l] = {} /\ UNCHANGED <<loaded, overlap>>
        /\ cache' = [k \in Keys |-> IF loaded[l][k] = NoResult THEN cache[k] ELSE loaded[l][k]]
    BY <1>8 DEF InsertAll, meetVars, TypeOK
  <2>2. \A k \in Keys \ overlap[l] : Progress(l, k)'
    BY <1>1, <2>1, WholeIsFound DEF CacheInv, LoadsAgree, Progress
  <2>3. LoadsAgree'
    BY <1>4, <1>5, <2>1, <2>2 DEF LoadsAgree
  <2>4. SettledAgree'
    BY <2>1 DEF SettledAgree, Quiet
  <2> QED BY <1>2, <2>3, <2>4 DEF CacheInv
<1>9. CASE ReplaceModels(l)
  <2>1. /\ lpc[l] = "models" /\ lpc'[l] = "idle" /\ models' = {ModelOf[k] : k \in Found(l)}
        /\ UNCHANGED cache /\ stale' = overlap[l]
    BY <1>9 DEF ReplaceModels, TypeOK
  <2>2. LoadsAgree'
    BY <1>4, <2>1 DEF LoadsAgree
  <2>3. SettledAgree'
    <3> SUFFICES ASSUME NEW k \in Keys \ overlap[l], file[k].kind = "whole"
                 PROVE  cache[k] = Entry(file[k]) /\ ModelOf[k] \in models'
      BY <1>1, <2>1 DEF SettledAgree, Agree
    <3>1. loaded[l][k] = Entry(file[k]) /\ cache[k] = Entry(file[k])
      BY <1>1, <2>1 DEF CacheInv, LoadsAgree, Progress
    <3>2. k \in Found(l)
      BY <3>1, WholeIsFound DEF Found
    <3> QED BY <2>1, <3>1, <3>2
  <2> QED BY <1>2, <2>2, <2>3 DEF CacheInv
<1> QED BY <1>6, <1>7, <1>8, <1>9 DEF Load

LEMMA ServerKeepsCache ==
  ASSUME TypeOK, CacheInv, BeginRefresh \/ Tick \/ Crash \/ UNCHANGED vars
  PROVE  CacheInv'
<1>1. CASE BeginRefresh
  <2>1. /\ lpc' = [lpc EXCEPT !["refresh"] = "list"] /\ lpc["refresh"] = "idle" /\ alone' = {}
        /\ UNCHANGED <<file, wpc, listed, loaded, cache>>
        /\ overlap' = IF lpc["startup"] = "idle"
                         THEN [overlap EXCEPT !["refresh"] = {k \in Keys : Busy(k)}]
                         ELSE [l \in Loads |-> Keys]
    BY <1>1 DEF BeginRefresh, diskVars, writerVars, cacheVars
  <2>2. ~Quiet'
    BY <2>1 DEF Quiet, Loads, TypeOK
  <2>3. LoadsAgree'
    <3>1. CASE lpc["startup"] = "idle"
      BY <2>1, <3>1 DEF LoadsAgree, Busy, Progress, Loads, TypeOK
    <3>2. CASE lpc["startup"] # "idle"
      BY <2>1, <3>2 DEF LoadsAgree
    <3> QED BY <3>1, <3>2
  <2> QED BY <2>1, <2>2, <2>3 DEF CacheInv, SettledAgree, AloneAgree
<1>2. CASE Tick \/ UNCHANGED vars
  <2>1. UNCHANGED <<file, wpc, got, cache, models, lpc, listed, loaded, overlap, alone, stale>>
    BY <1>2 DEF Tick, vars, diskVars, writerVars, cacheVars, loadVars, meetVars
  <2> QED
    BY <2>1 DEF CacheInv, SettledAgree, AloneAgree, LoadsAgree, Settled, Agree, Progress, Busy, Quiet
<1>3. CASE Crash
  <2>1. /\ wpc' = [w \in Writers |-> "idle"] /\ alone' = {}
        /\ lpc' = [l \in Loads |-> IF l = "startup" THEN "list" ELSE "idle"]
    BY <1>3 DEF Crash, Started
  <2>2. ~Quiet'
    BY <2>1 DEF Quiet, Loads
  <2>3. LoadsAgree'
    BY <2>1 DEF LoadsAgree, Busy, Progress, Loads
  <2> QED BY <2>1, <2>2, <2>3 DEF CacheInv, SettledAgree, AloneAgree
<1> QED BY <1>1, <1>2, <1>3

LEMMA CacheNext == OneWriterPerFile /\ TypeOK /\ DiskInv /\ CacheInv /\ [Next]_vars => CacheInv'
BY SaveKeepsCache, LoadKeepsCache, ServerKeepsCache DEF Next

\* With one worker for each file: when no load runs and nobody saves it, a file is
\* what the cache shows, unless its last save and a load have met.
THEOREM CacheShowsFiles == ASSUME OneWriterPerFile PROVE Spec => []CacheAgrees
<1>1. CacheInv => CacheAgrees
  BY DEF CacheInv, SettledAgree, Settled, Agree, CacheAgrees, Quiet, Busy
<1>2. TypeOK /\ DiskInv /\ CacheInv /\ [Next]_vars => CacheInv' /\ DiskInv'
  BY CacheNext, DiskNext
<1> QED BY <1>1, <1>2, CacheInitially, DiskInitially, StoreTypeCorrect, PTL DEF Spec
=============================================================================
