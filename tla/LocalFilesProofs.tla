-------------------------- MODULE LocalFilesProofs --------------------------
(***************************************************************************)
(* Theorems about LocalFiles, for any number of processes, directories,    *)
(* servers and connections.                                                *)
(***************************************************************************)
EXTENDS LocalFiles, TLAPS

-----------------------------------------------------------------------------
(* Types *)

LEMMA NoProcTyped == NoProc \in Invocation
  BY LocalFilesAssumption DEF NoProc, Started, Invocation, Stages, Commands, Settings

LEMMA InitTypes == Init => TypeOK
  <1> SUFFICES ASSUME Init PROVE TypeOK
    OBVIOUS
  <1>1. proc \in [Procs -> Invocation] /\ session \in [Sessions -> Connection]
    BY NoProcTyped DEF Init, Connection, Closed
  <1>2. \A p \in Procs : proc[p].pc = "idle"
    BY DEF Init, NoProc, Started
  <1>3. \A c \in Sessions : session[c].pc = "closed"
    BY DEF Init, Closed
  <1> QED
    BY <1>1, <1>2, <1>3, LocalFilesAssumption DEF Init, TypeOK

(* TypeOK of what a step does to the processes: when it only moves one of  *)
(* them, all else is typed as before.                                      *)
ProcsTyped ==
    /\ proc \in [Procs -> Invocation]
    /\ \A p \in Procs :
         /\ proc[p].pc # "idle" => proc[p].cwd \in Cwds /\ proc[p].server \in Servers
         /\ proc[p].pc \notin {"idle", "resolving", "creating", "writing"}
              => proc[p].path \in Paths

LEMMA ProcStep ==
    ASSUME TypeOK, NEW p \in Procs, NEW q \in Invocation,
           q.pc # "idle" => q.cwd \in Cwds /\ q.server \in Servers,
           q.pc \notin {"idle", "resolving", "creating", "writing"} => q.path \in Paths,
           proc' = [proc EXCEPT ![p] = q]
    PROVE  ProcsTyped'
  BY DEF TypeOK, ProcsTyped

LEMMA Going ==
    ASSUME TypeOK, NEW p \in Procs, proc[p].pc # "idle",
           NEW pc \in Stages, Goto(p, pc),
           \/ pc \in {"idle", "resolving", "creating", "writing"}
           \/ proc[p].path \in Paths
    PROVE  ProcsTyped'
  <1> DEFINE q == [proc[p] EXCEPT !.pc = pc]
  <1>1. q \in Invocation /\ q.pc = pc /\ q.cwd = proc[p].cwd
        /\ q.server = proc[p].server /\ q.path = proc[p].path
    BY DEF TypeOK, Invocation
  <1>2. proc' = [proc EXCEPT ![p] = q]
    BY DEF Goto
  <1>3. proc[p].cwd \in Cwds /\ proc[p].server \in Servers
    BY DEF TypeOK
  <1> HIDE DEF q
  <1> QED
    BY <1>1, <1>2, <1>3, ProcStep

LEMMA GoingTo ==
    ASSUME TypeOK, NEW p \in Procs, proc[p].pc # "idle", NEW f \in Paths,
           proc' = [proc EXCEPT ![p].pc = "loading", ![p].path = f]
    PROVE  ProcsTyped'
  <1> DEFINE q == [proc[p] EXCEPT !.pc = "loading", !.path = f]
  <1>1. q \in Invocation /\ q.cwd = proc[p].cwd
        /\ q.server = proc[p].server /\ q.path = f
    BY DEF TypeOK, Invocation, Stages
  <1>2. proc' = [proc EXCEPT ![p] = q]
    OBVIOUS
  <1>3. proc[p].cwd \in Cwds /\ proc[p].server \in Servers
    BY DEF TypeOK
  <1> HIDE DEF q
  <1> QED
    BY <1>1, <1>2, <1>3, ProcStep

LEMMA Ended ==
    ASSUME TypeOK, NEW p \in Procs, proc' = [proc EXCEPT ![p] = NoProc]
    PROVE  ProcsTyped'
  BY NoProcTyped, ProcStep DEF NoProc, Started

(* A token entry of a running process has its type. *)
LEMMA CacheType ==
    ASSUME TypeOK, NEW p \in Procs, proc[p].pc # "idle", NEW s \in Servers
    PROVE  Cache(p, s) \in ((Cwds \cup {NoPath}) \X Settings) \X Urls
  BY DEF TypeOK, Cache, TokenDir, Invocation, Urls, Settings

(* The steps of the user and of a process that is starting. *)
LEMMA StartTypes ==
    ASSUME TypeOK, User
    PROVE  TypeOK'
  <1>1. ASSUME NEW f \in Paths, EditBegin(f) PROVE TypeOK'
    BY <1>1, LocalFilesAssumption DEF EditBegin, TypeOK, history
  <1>2. ASSUME NEW c \in Written, EditEnd(c) PROVE TypeOK'
    BY <1>2, LocalFilesAssumption DEF EditEnd, TypeOK, history
  <1>3. ASSUME NEW p \in Procs, NEW command \in Commands, NEW cwd \in Cwds,
               NEW named \in {NoPath} \cup Paths, NEW preset \in Presets, NEW s \in Servers,
               Start(p, command, cwd, named, preset, s)
        PROVE TypeOK'
    <2> DEFINE started == Started("resolving", command, cwd, named, preset, s)
    <2>1. started \in Invocation /\ started.pc = "resolving" /\ started.cwd = cwd /\ started.server = s
      BY LocalFilesAssumption DEF Started, Invocation, Stages
    <2>2. proc' = [proc EXCEPT ![p] = started]
      BY <1>3 DEF Start
    <2> HIDE DEF started
    <2> QED
      BY <1>3, <2>1, <2>2, ProcStep, LocalFilesAssumption
      DEF Start, TypeOK, ProcsTyped, disk, history
  <1> QED
    BY <1>1, <1>2, <1>3 DEF User

LEMMA ExitTypes ==
    ASSUME TypeOK, NEW p \in Procs, Exit(p)
    PROVE  TypeOK'
  <1>1. proc' = [proc EXCEPT ![p] = NoProc]
    BY DEF Exit
  <1>2. session' \in [Sessions -> Connection]
        /\ \A c \in Sessions : session'[c].pc # "closed" => session'[c].server \in Servers
    BY DEF Exit, TypeOK, Closed, Connection
  <1> QED
    BY <1>1, <1>2, Ended DEF Exit, TypeOK, ProcsTyped, disk, history

(* A process that goes on keeps its type when its program counter, path    *)
(* and configuration do.                                                   *)
LEMMA LoadTypes ==
    ASSUME TypeOK, NEW p \in Procs,
           Resolve(p) \/ CreateDefault(p) \/ WriteDefault(p) \/ LoadConfig(p)
    PROVE  TypeOK'
  <1>1. DefaultPath \in Paths
    BY DEF Paths
  <1>2. ASSUME NEW f \in Paths, At(p, "resolving"), Load(p, f) PROVE TypeOK'
    BY <1>2, GoingTo DEF Load, At, TypeOK, ProcsTyped, disk, history
  <1>3. CASE Resolve(p)
    <2> DEFINE named == proc[p].named
               local == LocalConfig[proc[p].cwd]
    <2>1. local \in Paths
      BY <1>3 DEF Resolve, At, TypeOK, Paths
    <2>2. named \in Paths \cup {NoPath}
      BY DEF TypeOK, Invocation
    <2>3. CASE Load(p, named) /\ named # NoPath
      BY <1>2, <1>3, <2>2, <2>3 DEF Resolve
    <2>4. CASE Exit(p)
      BY <2>4, ExitTypes
    <2>5. CASE Load(p, local) \/ Load(p, DefaultPath)
      BY <1>1, <1>2, <1>3, <2>1, <2>5 DEF Resolve
    <2>6. CASE Goto(p, "creating") /\ UNCHANGED <<disk, starts, tokens, session, history>>
      BY <1>3, <2>6, Going DEF Resolve, At, TypeOK, ProcsTyped, Stages, disk, history
    <2> QED
      BY <1>3, <2>3, <2>4, <2>5, <2>6 DEF Resolve
  <1>4. CASE CreateDefault(p)
    BY <1>1, <1>4, Going DEF CreateDefault, At, TypeOK, ProcsTyped, Stages, history
  <1>5. CASE WriteDefault(p)
    <2>1. ProcsTyped'
      BY <1>1, <1>5, GoingTo DEF WriteDefault, At
    <2>2. files' \in [Paths -> Configs \cup {Absent, Partial}] /\ whole' \in [Paths -> SUBSET Configs]
      BY <1>1, <1>5, LocalFilesAssumption DEF WriteDefault, TypeOK
    <2> QED
      BY <1>5, <2>1, <2>2 DEF WriteDefault, TypeOK, ProcsTyped, history
  <1>6. CASE LoadConfig(p)
    <2> DEFINE c == Parsed(proc[p].path)
               policy == IF c.policy_file THEN policyFile ELSE c.policy
               loaded == [c EXCEPT !.policy = policy]
    <2>1. CASE Exit(p)
      BY <2>1, ExitTypes
    <2>2. CASE ~Exit(p)
      <3>1. c \in Configs /\ policy # Absent
        BY <1>6, <2>2 DEF LoadConfig, TypeOK, At, Parsed
      <3>2. policy \in Policies
        BY <3>1 DEF TypeOK, Configs
      <3>3. loaded \in Configs
        BY <3>1, <3>2 DEF Configs
      <3>4. Applied(p, c) \in Settings
        BY <3>1 DEF Applied, TypeOK, Invocation, Configs
      <3>5. proc' = [proc EXCEPT ![p].pc = "loaded", ![p].cfg = loaded,
                                 ![p].oauth_dir = Applied(p, c)]
            /\ UNCHANGED <<disk, starts, tokens, session, history>>
            /\ proc[p].pc = "loading"
        BY <1>6, <2>2 DEF LoadConfig, At
      <3> DEFINE q == [proc[p] EXCEPT !.pc = "loaded", !.cfg = loaded, !.oauth_dir = Applied(p, c)]
      <3> HIDE DEF c, loaded
      <3>6. q \in Invocation /\ q.cwd = proc[p].cwd
            /\ q.server = proc[p].server /\ q.path = proc[p].path
        BY <3>3, <3>4 DEF TypeOK, Invocation, Stages
      <3>7. proc' = [proc EXCEPT ![p] = q]
        BY <3>5
      <3>8. proc[p].cwd \in Cwds /\ proc[p].server \in Servers /\ proc[p].path \in Paths
        BY <3>5 DEF TypeOK
      <3> HIDE DEF q
      <3>9. ProcsTyped'
        BY <3>6, <3>7, <3>8, ProcStep
      <3> QED
        BY <3>5, <3>9 DEF TypeOK, ProcsTyped, disk, history
    <2> QED
      BY <2>1, <2>2
  <1> QED
    BY <1>3, <1>4, <1>5, <1>6

LEMMA CommandTypes ==
    ASSUME TypeOK, NEW p \in Procs,
           \/ Serve(p) \/ FetchServer(p) \/ FetchFails(p)
           \/ Authorize(p) \/ LoginFails(p) \/ LoginEnds(p)
           \/ Look(p) \/ Clear(p) \/ Die(p)
    PROVE  TypeOK'
  <1>1. CASE Exit(p)
    BY <1>1, ExitTypes
  <1>2. CASE Serve(p) /\ ~Exit(p)
    BY <1>2, Going DEF Serve, At, TypeOK, ProcsTyped, Stages, disk, history
  <1>3. CASE FetchServer(p)
    BY <1>3, Going DEF FetchServer, At, TypeOK, ProcsTyped, Stages, disk
  <1>4. CASE Authorize(p)
    <2> DEFINE entry == Cache(p, proc[p].server)
    <2>1. entry \in ((Cwds \cup {NoPath}) \X Settings) \X Urls
      BY <1>4, CacheType DEF Authorize, At, TypeOK
    <2>2. logouts[entry[2]] \in Nat
      BY <2>1 DEF TypeOK
    <2>3. tokens' \subseteq ((Cwds \cup {NoPath}) \X Settings) \X Urls
      BY <1>4, <2>1 DEF Authorize, TypeOK
    <2>4. /\ proc' = [proc EXCEPT ![p].pc = "pinging", ![p].logouts = logouts[entry[2]]]
          /\ UNCHANGED <<disk, starts, session, history>>
          /\ proc[p].pc = "authorizing"
      BY <1>4 DEF Authorize, At
    <2> DEFINE q == [proc[p] EXCEPT !.pc = "pinging", !.logouts = logouts[entry[2]]]
    <2> HIDE DEF entry
    <2>5. q \in Invocation /\ q.cwd = proc[p].cwd
          /\ q.server = proc[p].server /\ q.path = proc[p].path
      BY <2>2 DEF TypeOK, Invocation, Stages
    <2>6. proc' = [proc EXCEPT ![p] = q]
      BY <2>4
    <2>7. proc[p].cwd \in Cwds /\ proc[p].server \in Servers /\ proc[p].path \in Paths
      BY <2>4 DEF TypeOK
    <2> HIDE DEF q
    <2>8. ProcsTyped'
      BY <2>5, <2>6, <2>7, ProcStep
    <2> QED
      BY <2>3, <2>4, <2>8 DEF TypeOK, ProcsTyped, disk, history
  <1>5. CASE LoginEnds(p)
    BY <1>5, Ended DEF LoginEnds, TypeOK, ProcsTyped, disk
  <1>6. CASE Look(p)
    BY <1>6, Going DEF Look, At, TypeOK, ProcsTyped, Stages, disk, history
  <1>7. CASE Clear(p)
    <2> DEFINE entry == Cache(p, proc[p].server)
    <2>1. tokens' \subseteq tokens
      BY <1>7 DEF Clear
    <2>2. /\ proc' = [proc EXCEPT ![p] = NoProc]
          /\ UNCHANGED <<disk, starts, session>>
          /\ logouts' = [logouts EXCEPT ![entry[2]] = @ + 1]
      BY <1>7 DEF Clear, Cleared
    <2>3. entry[2] \in Urls
      BY <1>7, CacheType DEF Clear, At, TypeOK
    <2>4. logouts' \in [Urls -> Nat]
      BY <2>2, <2>3 DEF TypeOK
    <2> HIDE DEF entry
    <2> QED
      BY <2>1, <2>2, <2>4, Ended DEF TypeOK, ProcsTyped, disk
  <1> QED
    BY <1>1, <1>2, <1>3, <1>4, <1>5, <1>6, <1>7 DEF Serve, FetchFails, LoginFails, Die

LEMMA SessionTypes ==
    ASSUME TypeOK, NEW c \in Sessions, Session(c)
    PROVE  TypeOK'
  <1>1. CASE \E s \in Servers : Connect(c, s)
    <2>1. session' \in [Sessions -> Connection]
          /\ \A b \in Sessions : session'[b].pc # "closed" => session'[b].server \in Servers
      BY <1>1 DEF Connect, TypeOK, Connection
    <2> QED
      BY <1>1, <2>1 DEF Connect, TypeOK, disk, history
  <1>2. ASSUME NEW from, NEW to \in {"closed", "reading", "open", "refreshing", "unauthorized"},
               from # "closed", Move(c, from, to)
        PROVE  /\ session' \in [Sessions -> Connection]
               /\ \A b \in Sessions : session'[b].pc # "closed" => session'[b].server \in Servers
    BY <1>2 DEF Move, TypeOK, Connection, Closed
  <1>3. CASE Refreshed(c)
    <2>1. \A d \in Serving : Cache(d, session[c].server)
                                \in ((Cwds \cup {NoPath}) \X Settings) \X Urls
      BY <1>3, CacheType DEF Refreshed, Move, Serving, At, TypeOK
    <2> QED
      BY <1>2, <1>3, <2>1 DEF Refreshed, TypeOK, disk, history
  <1>4. CASE ReadCache(c)
    BY <1>2, <1>4 DEF ReadCache, TypeOK, disk, history
  <1>5. CASE Unauthorized(c) \/ BeginRefresh(c) \/ Redirect(c) \/ Disconnect(c)
    BY <1>2, <1>5 DEF Unauthorized, BeginRefresh, Redirect, Disconnect, TypeOK, disk, history
  <1> QED
    BY <1>1, <1>3, <1>4, <1>5 DEF Session

LEMMA NextTypes == TypeOK /\ [Next]_vars => TypeOK'
  <1> SUFFICES ASSUME TypeOK, [Next]_vars PROVE TypeOK'
    OBVIOUS
  <1>1. CASE UNCHANGED vars
    BY <1>1 DEF vars, disk, history, TypeOK
  <1>2. ASSUME NEW p \in Procs, Process(p) PROVE TypeOK'
    BY <1>2, LoadTypes, CommandTypes DEF Process
  <1> QED
    BY <1>1, <1>2, StartTypes, SessionTypes DEF Next

(* Whatever processes run, files are edited and connections are made, every *)
(* variable keeps its type.                                                *)
THEOREM TypeCorrect == Spec => []TypeOK
  BY InitTypes, NextTypes, PTL DEF Spec

-----------------------------------------------------------------------------
(* Configurations *)

(* What a configuration file holds when nobody is writing it. *)
FilesAreWhole == \A f \in Paths : files[f] \in {Absent, Partial} \cup whole[f]

(* The configuration made of the contents c of a file. *)
Made(c) == [c EXCEPT !.policy = IF c.policy_file THEN policyFile ELSE @]

LEMMA InitFiles == Init => FilesAreWhole /\ RunsItsConfig
  BY DEF Init, FilesAreWhole, RunsItsConfig, Running, NoProc, Started

(* A file gets its contents at once, and what it has had is remembered. *)
LEMMA FilesStep ==
    ASSUME TypeOK, FilesAreWhole, [Next]_vars
    PROVE  /\ FilesAreWhole'
           /\ \A f \in Paths : whole[f] \subseteq whole'[f]
           /\ policyFile' = policyFile
  <1>1. ASSUME NEW f \in Paths, EditBegin(f)
        PROVE  /\ FilesAreWhole' /\ whole' = whole /\ policyFile' = policyFile
    BY <1>1 DEF EditBegin, FilesAreWhole, TypeOK
  <1>2. ASSUME NEW c \in Written, EditEnd(c)
        PROVE  /\ FilesAreWhole' /\ policyFile' = policyFile
               /\ \A f \in Paths : whole[f] \subseteq whole'[f]
    BY <1>2 DEF EditEnd, FilesAreWhole, TypeOK
  <1>3. ASSUME NEW p \in Procs, CreateDefault(p)
        PROVE  /\ FilesAreWhole' /\ whole' = whole /\ policyFile' = policyFile
    BY <1>3 DEF CreateDefault, FilesAreWhole, TypeOK
  <1>4. ASSUME NEW p \in Procs, WriteDefault(p)
        PROVE  /\ FilesAreWhole' /\ policyFile' = policyFile
               /\ \A f \in Paths : whole[f] \subseteq whole'[f]
    BY <1>4 DEF WriteDefault, FilesAreWhole, TypeOK
  <1>5. ASSUME UNCHANGED disk
        PROVE  /\ FilesAreWhole' /\ whole' = whole /\ policyFile' = policyFile
    BY <1>5 DEF disk, FilesAreWhole
  <1>6. ASSUME NEW p \in Procs, Process(p), ~CreateDefault(p), ~WriteDefault(p)
        PROVE  UNCHANGED disk
    BY <1>6 DEF Process, Resolve, Load, Exit, LoadConfig, Serve, FetchServer, FetchFails,
       Authorize, LoginFails, LoginEnds, Look, Clear, Cleared, Die
  <1>7. ASSUME NEW c \in Sessions, Session(c)
        PROVE  UNCHANGED disk
    BY <1>7 DEF Session, Connect, ReadCache, Unauthorized, BeginRefresh, Refreshed,
       Redirect, Disconnect
  <1> QED
    BY <1>1, <1>2, <1>3, <1>4, <1>5, <1>6, <1>7 DEF Next, User, Start, vars

(* What a running process was started with, and where it keeps tokens. *)
Same(p) ==
    /\ proc'[p].path = proc[p].path
    /\ proc'[p].cfg = proc[p].cfg
    /\ proc'[p].preset = proc[p].preset
    /\ proc'[p].cwd = proc[p].cwd
    /\ proc'[p].oauth_dir = proc[p].oauth_dir

Loads(p) ==
    LET c == files[proc[p].path]
    IN  /\ c \in Configs
        /\ proc[p].path \in Paths
        /\ proc'[p].path = proc[p].path
        /\ proc'[p].preset = proc[p].preset
        /\ proc'[p].cwd = proc[p].cwd
        /\ proc'[p].cfg = Made(c)
        /\ proc'[p].oauth_dir = Applied(p, c)
        /\ proc'[p].pc = "loaded"

LEMMA OthersStay ==
    ASSUME TypeOK, NEW p \in Procs, NEW q \in Procs, q # p, Process(q)
    PROVE  proc'[p] = proc[p]
  BY DEF Process, Resolve, Load, Exit, Goto, CreateDefault, WriteDefault, LoadConfig,
     Serve, FetchServer, FetchFails, Authorize, LoginFails, LoginEnds, Look, Clear, Cleared,
     Die, TypeOK

(* A process comes to run by loading its configuration, and keeps it. *)
LEMMA RunningStep ==
    ASSUME TypeOK, [Next]_vars, NEW p \in Procs, p \in Running'
    PROVE  (p \in Running /\ Same(p)) \/ Loads(p)
  <1>1. ASSUME proc'[p] = proc[p] PROVE p \in Running /\ Same(p)
    BY <1>1 DEF Running, Same
  <1>2. ASSUME NEW q \in Procs, q # p, Process(q) PROVE proc'[p] = proc[p]
    BY <1>2, OthersStay
  <1>3. ASSUME proc' = [proc EXCEPT ![p] = NoProc] PROVE FALSE
    BY <1>3 DEF TypeOK, Running, NoProc, Started
  <1>4. ~Exit(p)
    BY <1>3 DEF Exit
  <1>5. ASSUME NEW pc, Goto(p, pc), p \in Running PROVE p \in Running /\ Same(p)
    BY <1>5 DEF Goto, Same, TypeOK, Invocation
  <1>6. CASE LoadConfig(p)
    <2>1. files[proc[p].path] \in Configs /\ proc[p].path \in Paths
      BY <1>4, <1>6 DEF LoadConfig, Parsed, At, TypeOK
    <2> QED
      BY <1>4, <1>6, <2>1 DEF LoadConfig, Parsed, Loads, Made, TypeOK, Invocation, Configs
  <1>7. ASSUME Resolve(p) \/ CreateDefault(p) \/ WriteDefault(p) PROVE FALSE
    BY <1>4, <1>7 DEF Resolve, Load, CreateDefault, WriteDefault, Goto, TypeOK, Invocation, Running
  <1>8. CASE Serve(p) \/ FetchServer(p) \/ Look(p)
    <2>1. p \in Running
      BY <1>8 DEF Serve, FetchServer, Look, At, Running
    <2> QED
      BY <1>4, <1>5, <1>8, <2>1 DEF Serve, FetchServer, Look
  <1>9. CASE Authorize(p)
    BY <1>9 DEF Authorize, At, Running, Same, TypeOK, Invocation
  <1>10. CASE LoginEnds(p) \/ Clear(p)
    BY <1>3, <1>10 DEF LoginEnds, Clear, Cleared
  <1>11. CASE Process(p)
    BY <1>4, <1>6, <1>7, <1>8, <1>9, <1>10, <1>11 DEF Process, FetchFails, LoginFails, Die
  <1>12. ASSUME User, p \in Running' PROVE proc'[p] = proc[p]
    BY <1>12 DEF User, EditBegin, EditEnd, Start, Started, Running, TypeOK
  <1>13. ASSUME NEW c \in Sessions, Session(c) PROVE proc' = proc
    BY <1>13 DEF Session, Connect, ReadCache, Unauthorized, BeginRefresh, Refreshed,
       Redirect, Disconnect
  <1> QED
    BY <1>1, <1>2, <1>11, <1>12, <1>13 DEF Next, vars

LEMMA ConfigStep ==
    ASSUME TypeOK, FilesAreWhole, RunsItsConfig, [Next]_vars
    PROVE  RunsItsConfig'
  <1> SUFFICES ASSUME NEW p \in Running'
               PROVE  \E c \in whole'[proc'[p].path] :
                        proc'[p].cfg = [c EXCEPT !.policy = IF c.policy_file THEN policyFile' ELSE @]
    BY DEF RunsItsConfig
  <1>1. p \in Procs
    BY DEF Running
  <1>2. CASE p \in Running /\ Same(p)
    <2>1. PICK c \in whole[proc[p].path] :
            proc[p].cfg = [c EXCEPT !.policy = IF c.policy_file THEN policyFile ELSE @]
      BY <1>2 DEF RunsItsConfig
    <2>2. proc[p].path \in Paths
      BY <1>2 DEF TypeOK, Running
    <2> QED
      BY <1>2, <2>1, <2>2, FilesStep DEF Same
  <1>3. CASE Loads(p)
    <2>1. files[proc[p].path] \in whole[proc[p].path]
      BY <1>3, LocalFilesAssumption DEF Loads, FilesAreWhole
    <2> QED
      BY <1>3, <2>1, FilesStep DEF Loads, Made
  <1> QED
    BY <1>1, <1>2, <1>3, RunningStep

(* Whatever is edited, created or killed meanwhile, a process runs with a  *)
(* configuration its file has held, whole.                                 *)
THEOREM WholeConfigs == Spec => []RunsItsConfig
  <1>1. Init => TypeOK /\ FilesAreWhole /\ RunsItsConfig
    BY InitTypes, InitFiles
  <1>2. TypeOK /\ FilesAreWhole /\ RunsItsConfig /\ [Next]_vars
          => (TypeOK /\ FilesAreWhole /\ RunsItsConfig)'
    BY NextTypes, FilesStep, ConfigStep
  <1> QED
    BY <1>1, <1>2, PTL DEF Spec

-----------------------------------------------------------------------------
(* Token directories *)

(* Where a process started as in b keeps its tokens. *)
Dir(b) ==
    LET setting == IF b.cfg.oauth_token_dir # Unset THEN b.cfg.oauth_token_dir ELSE b.preset
    IN  IF setting = Relative THEN <<b.cwd, Relative>> ELSE <<NoPath, setting>>

DirsFollow == \A p \in Running : TokenDir(p) = Dir(Basis(p))

(* Processes that agree keep their tokens in one place. *)
LEMMA AgreeingDirs ==
    ASSUME NEW a, NEW b, Agree(a, b)
    PROVE  Dir(a) = Dir(b)
  BY DEF Agree, Dir

LEMMA DirsStep ==
    ASSUME TypeOK, DirsFollow, [Next]_vars
    PROVE  DirsFollow'
  <1> SUFFICES ASSUME NEW p \in Procs, p \in Running'
               PROVE  TokenDir(p)' = Dir(Basis(p))'
    BY DEF DirsFollow, Running
  <1>1. CASE p \in Running /\ Same(p)
    BY <1>1 DEF DirsFollow, Same, TokenDir, Basis, Dir
  <1>2. CASE Loads(p)
    BY <1>2 DEF Loads, Made, Applied, TokenDir, Basis, Dir, Configs
  <1> QED
    BY <1>1, <1>2, RunningStep

-----------------------------------------------------------------------------
(* One daemon, and no connection without it *)

OneDaemon ==
    /\ \A p, q \in Serving : p = q
    /\ Serving = {} => \A c \in Sessions : session[c].pc = "closed"

(* A process that is not the daemon moves without touching connections.    *)
LEMMA DaemonStep ==
    ASSUME TypeOK, OneDaemon, [Next]_vars
    PROVE  OneDaemon'
  <1>1. ASSUME Serving' = Serving, session' = session PROVE OneDaemon'
    BY <1>1 DEF OneDaemon
  <1>2. CASE User \/ UNCHANGED vars
    <2>1. session' = session
      BY <1>2 DEF User, EditBegin, EditEnd, Start, vars
    <2>2. Serving' = Serving
      BY <1>2 DEF User, EditBegin, EditEnd, Start, Started, Serving, At, vars, TypeOK
    <2> QED
      BY <1>1, <2>1, <2>2
  <1>3. ASSUME NEW p \in Procs, Process(p) PROVE OneDaemon'
    <2>1. CASE Exit(p)
      <3>1. Serving' = Serving \ {p}
        BY <2>1 DEF Exit, Serving, At, TypeOK, NoProc, Started
      <3>2. CASE p \in Serving
        BY <2>1, <3>1, <3>2 DEF Exit, OneDaemon, Serving, Closed
      <3>3. CASE p \notin Serving
        BY <1>1, <2>1, <3>1, <3>3 DEF Exit, Serving
      <3> QED
        BY <3>2, <3>3
    <2>2. CASE Serve(p) /\ ~Exit(p)
      <3>1. Serving = {} /\ Serving' = {p} /\ session' = session
        BY <2>2 DEF Serve, Goto, Serving, At, TypeOK, Invocation
      <3> QED
        BY <3>1 DEF OneDaemon
    <2>3. CASE ~Exit(p) /\ ~Serve(p)
      <3>1. session' = session
        BY <1>3, <2>3 DEF Process, Resolve, Load, CreateDefault, WriteDefault, LoadConfig,
           FetchServer, FetchFails, Authorize, LoginFails, LoginEnds, Look, Clear, Cleared, Die
      <3>2. ~At(p, "serving")
        BY <1>3, <2>3 DEF Process, Resolve, CreateDefault, WriteDefault, LoadConfig,
           FetchServer, FetchFails, Authorize, LoginFails, LoginEnds, Look, Clear, Die, At
      <3>3. ASSUME Resolve(p) \/ CreateDefault(p) \/ WriteDefault(p) \/ LoadConfig(p)
            PROVE  ~At(p, "serving")'
        BY <2>3, <3>3 DEF Resolve, Load, Goto, CreateDefault, WriteDefault, LoadConfig,
           At, TypeOK, Invocation
      <3>4. ASSUME FetchServer(p) \/ Authorize(p) \/ Look(p)
            PROVE  ~At(p, "serving")'
        <4>1. ASSUME Authorize(p) PROVE proc'[p].pc = "pinging"
          BY <4>1 DEF Authorize, TypeOK, Invocation
        <4>2. ASSUME NEW pc, Goto(p, pc) PROVE proc'[p].pc = pc
          BY <4>2 DEF Goto, TypeOK, Invocation
        <4> QED
          BY <3>4, <4>1, <4>2 DEF FetchServer, Look, At
      <3>5. ASSUME LoginEnds(p) \/ Clear(p)
            PROVE  ~At(p, "serving")'
        <4>1. proc' = [proc EXCEPT ![p] = NoProc]
          BY <3>5 DEF LoginEnds, Clear, Cleared
        <4> QED
          BY <4>1 DEF At, TypeOK, NoProc, Started
      <3>6. ~At(p, "serving")'
        BY <1>3, <2>3, <3>3, <3>4, <3>5 DEF Process, FetchFails, LoginFails, Die, At
      <3> QED
        BY <1>1, <1>3, <3>1, <3>2, <3>6, OthersStay DEF Serving, At
    <2> QED
      BY <2>1, <2>2, <2>3
  <1>4. ASSUME NEW c \in Sessions, Session(c) PROVE OneDaemon'
    <2>1. Serving' = Serving
      BY <1>4 DEF Session, Connect, ReadCache, Unauthorized, BeginRefresh, Refreshed,
         Redirect, Disconnect, Serving, At
    <2>2. Serving # {}
      BY <1>4 DEF Session, Connect, ReadCache, Unauthorized, BeginRefresh, Refreshed,
         Redirect, Disconnect, Move, OneDaemon
    <2> QED
      BY <2>1, <2>2 DEF OneDaemon
  <1> QED
    BY <1>2, <1>3, <1>4 DEF Next

-----------------------------------------------------------------------------
(* Logins and logouts *)

(* A step that leaves p authorizing, pinging or serving found it so, or    *)
(* made it so.                                                             *)
LEMMA Pinned ==
    ASSUME TypeOK, [Next]_vars, NEW p \in Procs,
           proc'[p].pc \in {"authorizing", "pinging", "serving"}
    PROVE  \/ proc'[p] = proc[p]
           \/ Authorize(p) /\ proc'[p].pc = "pinging"
           \/ FetchServer(p) /\ proc'[p].pc = "authorizing"
           \/ Serve(p) /\ proc'[p].pc = "serving"
  <1>1. ASSUME proc' = [proc EXCEPT ![p] = NoProc] PROVE FALSE
    BY <1>1 DEF TypeOK, NoProc, Started
  <1>2. ~Exit(p)
    BY <1>1 DEF Exit
  <1>3. ASSUME NEW pc, Goto(p, pc) PROVE proc'[p].pc = pc
    BY <1>3 DEF Goto, TypeOK, Invocation
  <1>4. ASSUME Resolve(p) \/ CreateDefault(p) \/ WriteDefault(p) \/ LoadConfig(p) PROVE FALSE
    BY <1>2, <1>4 DEF Resolve, Load, Goto, CreateDefault, WriteDefault, LoadConfig,
       TypeOK, Invocation
  <1>5. ~LoginEnds(p) /\ ~Clear(p)
    BY <1>1 DEF LoginEnds, Clear, Cleared
  <1>6. ~Look(p)
    BY <1>3 DEF Look
  <1>7. ASSUME Authorize(p) PROVE proc'[p].pc = "pinging"
    BY <1>7 DEF Authorize, TypeOK, Invocation
  <1>8. ASSUME FetchServer(p) PROVE proc'[p].pc = "authorizing"
    BY <1>3, <1>8 DEF FetchServer
  <1>9. ASSUME Serve(p) PROVE proc'[p].pc = "serving"
    BY <1>2, <1>3, <1>9 DEF Serve
  <1>10. CASE Process(p)
    BY <1>2, <1>4, <1>5, <1>6, <1>7, <1>8, <1>9, <1>10 DEF Process, FetchFails, LoginFails, Die
  <1>11. ASSUME User PROVE proc'[p] = proc[p]
    BY <1>11 DEF User, EditBegin, EditEnd, Start, Started, TypeOK
  <1>12. ASSUME NEW c \in Sessions, Session(c) PROVE proc' = proc
    BY <1>12 DEF Session, Connect, ReadCache, Unauthorized, BeginRefresh, Refreshed,
       Redirect, Disconnect
  <1> QED
    BY <1>10, <1>11, <1>12, OthersStay DEF Next, vars

(* Tokens only go by a logout, and only a login that ends is remembered.   *)
LEMMA TokensStep ==
    ASSUME [Next]_vars
    PROVE  \/ tokens \subseteq tokens' /\ logouts' = logouts /\ logged' = logged
           \/ \E p \in Procs : LoginEnds(p) \/ Clear(p)
  <1>1. ASSUME NEW p \in Procs, Process(p), ~LoginEnds(p), ~Clear(p)
        PROVE  tokens \subseteq tokens' /\ logouts' = logouts /\ logged' = logged
    BY <1>1 DEF Process, Resolve, Load, Exit, CreateDefault, WriteDefault, LoadConfig,
       Serve, FetchServer, FetchFails, Authorize, LoginFails, Look, Die, history
  <1>2. ASSUME NEW c \in Sessions, Session(c)
        PROVE  tokens \subseteq tokens' /\ logouts' = logouts /\ logged' = logged
    BY <1>2 DEF Session, Connect, ReadCache, Unauthorized, BeginRefresh, Refreshed,
       Redirect, Disconnect, history
  <1>3. ASSUME User \/ UNCHANGED vars
        PROVE  tokens \subseteq tokens' /\ logouts' = logouts /\ logged' = logged
    BY <1>3 DEF User, EditBegin, EditEnd, Start, vars, history
  <1> QED
    BY <1>1, <1>2, <1>3 DEF Next

Entry(b, u) == <<Dir(b), u>>

(* The tokens of a login that ended, or is about to, are there until a     *)
(* logout.                                                                 *)
LoginsKept ==
    /\ \A l \in logged :
         /\ l.url \in Urls
         /\ l.logouts \in Nat
         /\ l.logouts <= logouts[l.url]
         /\ l.logouts = logouts[l.url] => Entry(l.basis, l.url) \in tokens
    /\ \A p \in Procs : proc[p].pc = "pinging" =>
         /\ proc[p].logouts <= logouts[Url[proc[p].server]]
         /\ proc[p].logouts = logouts[Url[proc[p].server]]
              => Cache(p, proc[p].server) \in tokens

LEMMA LoginsStep ==
    ASSUME TypeOK, DirsFollow, LoginsKept, [Next]_vars
    PROVE  LoginsKept'
  <1>1. \A p \in Procs : proc[p].pc # "idle" => Url[proc[p].server] \in Urls
    BY DEF TypeOK, Urls
  <1>2. CASE tokens \subseteq tokens' /\ logouts' = logouts /\ logged' = logged
    <2>1. ASSUME NEW p \in Procs, proc'[p].pc = "pinging"
          PROVE  /\ proc'[p].logouts <= logouts[Url[proc'[p].server]]
                 /\ proc'[p].logouts = logouts[Url[proc'[p].server]]
                      => Cache(p, proc[p].server)' \in tokens'
      <3>1. CASE proc'[p] = proc[p]
        BY <1>2, <2>1, <3>1 DEF LoginsKept, Cache, TokenDir
      <3>2. CASE Authorize(p)
        <4> DEFINE entry == Cache(p, proc[p].server)
        <4>1. entry[2] = Url[proc[p].server] /\ proc[p].pc = "authorizing"
          BY <3>2 DEF Cache, Authorize, At
        <4>2. entry \in tokens'
          BY <3>2 DEF Authorize
        <4>3. /\ proc'[p].logouts = logouts[entry[2]]
              /\ proc'[p].server = proc[p].server
              /\ proc'[p].cwd = proc[p].cwd
              /\ proc'[p].oauth_dir = proc[p].oauth_dir
          BY <3>2 DEF Authorize, TypeOK, Invocation
        <4>4. Cache(p, proc[p].server)' = entry
          BY <4>3 DEF Cache, TokenDir
        <4>5. logouts[entry[2]] \in Nat
          BY <1>1, <4>1 DEF TypeOK
        <4> HIDE DEF entry
        <4> QED
          BY <4>1, <4>2, <4>3, <4>4, <4>5
      <3> QED
        BY <2>1, <3>1, <3>2, Pinned
    <2> QED
      BY <1>2, <2>1 DEF LoginsKept
  <1>3. ASSUME NEW p \in Procs, LoginEnds(p) PROVE LoginsKept'
    <2> DEFINE l == [basis |-> Basis(p), url |-> Url[proc[p].server], logouts |-> proc[p].logouts]
    <2>1. proc[p].pc = "pinging" /\ p \in Running
      BY <1>3 DEF LoginEnds, At, Running
    <2>2. Entry(l.basis, l.url) = Cache(p, proc[p].server)
      BY <2>1 DEF DirsFollow, Entry, Cache
    <2>3. l.url \in Urls /\ l.logouts \in Nat
      BY <1>1, <2>1 DEF TypeOK, Invocation
    <2>4. logged' = logged \cup {l} /\ tokens' = tokens /\ logouts' = logouts
      BY <1>3 DEF LoginEnds
    <2>5. ASSUME NEW q \in Procs, proc'[q].pc = "pinging" PROVE proc'[q] = proc[q]
      BY <1>3, <2>5 DEF LoginEnds, TypeOK, NoProc, Started
    <2>6. \A q \in Procs : proc'[q].pc = "pinging" =>
              Cache(q, proc[q].server)' = Cache(q, proc[q].server)
      BY <2>5 DEF Cache, TokenDir
    <2>7. l.logouts <= logouts[l.url]
          /\ (l.logouts = logouts[l.url] => Entry(l.basis, l.url) \in tokens)
      BY <2>1, <2>2 DEF LoginsKept
    <2> HIDE DEF l
    <2> QED
      BY <2>3, <2>4, <2>5, <2>6, <2>7 DEF LoginsKept
  <1>4. ASSUME NEW p \in Procs, Clear(p) PROVE LoginsKept'
    <2> DEFINE u == Url[proc[p].server]
    <2>1. u \in Urls
      BY <1>1, <1>4 DEF Clear, At
    <2>2. logouts' = [logouts EXCEPT ![u] = @ + 1] /\ logged' = logged
      BY <1>4 DEF Clear, Cleared, Cache
    <2>3. \A d, v : v # u /\ <<d, v>> \in tokens => <<d, v>> \in tokens'
      BY <1>4 DEF Clear, Cache
    <2>4. logouts[u] \in Nat /\ logouts'[u] = logouts[u] + 1
          /\ \A v \in Urls : v # u => logouts'[v] = logouts[v]
      BY <2>1, <2>2 DEF TypeOK
    <2>5. ASSUME NEW q \in Procs, proc'[q].pc = "pinging" PROVE proc'[q] = proc[q]
      BY <1>4, <2>5 DEF Clear, Cleared, TypeOK, NoProc, Started
    <2>6. \A q \in Procs : proc'[q].pc = "pinging" =>
              /\ Cache(q, proc[q].server)' = <<TokenDir(q), Url[proc[q].server]>>
              /\ Cache(q, proc[q].server) = <<TokenDir(q), Url[proc[q].server]>>
              /\ proc[q].logouts \in Nat
      BY <2>5 DEF Cache, TokenDir, TypeOK, Invocation
    <2> HIDE DEF u
    <2>7. ASSUME NEW l \in logged
          PROVE  /\ l.logouts <= logouts'[l.url]
                 /\ l.logouts = logouts'[l.url] => Entry(l.basis, l.url) \in tokens'
      BY <2>3, <2>4 DEF LoginsKept, Entry
    <2>8. ASSUME NEW q \in Procs, proc'[q].pc = "pinging"
          PROVE  /\ proc'[q].logouts <= logouts'[Url[proc'[q].server]]
                 /\ proc'[q].logouts = logouts'[Url[proc'[q].server]]
                      => Cache(q, proc[q].server)' \in tokens'
      <3>1. Url[proc[q].server] \in Urls
        BY <1>1, <2>5, <2>8
      <3> QED
        BY <2>3, <2>4, <2>5, <2>6, <2>8, <3>1 DEF LoginsKept
    <2> QED
      BY <2>2, <2>7, <2>8 DEF LoginsKept, Entry, Dir
  <1> QED
    BY <1>2, <1>3, <1>4, TokensStep

(* What a logout cleared stays cleared: no login of that url is under way, *)
(* and no connection of a daemon that keeps its tokens there has them.     *)
LogoutsKept ==
    \A g \in gone :
      /\ Entry(g.basis, g.url) \notin tokens
      /\ \A p \in Procs : proc[p].pc = "authorizing" => Url[proc[p].server] # g.url
      /\ \A c \in Sessions, d \in Serving :
           session[c].pc \in {"open", "refreshing"}
             => Cache(d, session[c].server) # Entry(g.basis, g.url)

(* What each step does to the cache, the logouts and the connections.      *)
LEMMA LogoutFrames ==
    ASSUME [Next]_vars
    PROVE  \/ tokens' = tokens /\ gone' = gone /\ session' \in {session, [c \in Sessions |-> Closed]}
           \/ \E p \in Procs : FetchServer(p) \/ Authorize(p) \/ Clear(p)
           \/ \E c \in Sessions : Session(c)
  <1>1. ASSUME NEW p \in Procs, Process(p), ~FetchServer(p), ~Authorize(p), ~Clear(p)
        PROVE  tokens' = tokens /\ gone' = gone /\ session' \in {session, [c \in Sessions |-> Closed]}
    BY <1>1 DEF Process, Resolve, Load, Exit, CreateDefault, WriteDefault, LoadConfig,
       Serve, FetchFails, LoginFails, LoginEnds, Look, Die, history
  <1>2. ASSUME User \/ UNCHANGED vars
        PROVE  tokens' = tokens /\ gone' = gone /\ session' = session
    BY <1>2 DEF User, EditBegin, EditEnd, Start, vars, history
  <1> QED
    BY <1>1, <1>2 DEF Next

(* The processes' part: who authorizes, and what a daemon's cache is. *)
LEMMA AuthorizingStep ==
    ASSUME TypeOK, LogoutsKept, [Next]_vars, NEW g \in gone, NEW p \in Procs,
           proc'[p].pc = "authorizing"
    PROVE  Url[proc'[p].server] # g.url \/ g \notin gone'
  <1>1. CASE proc'[p] = proc[p]
    BY <1>1 DEF LogoutsKept
  <1>2. CASE FetchServer(p) /\ proc'[p].pc = "authorizing"
    <2>1. ASSUME NEW pc, Goto(p, pc) PROVE proc'[p].pc = pc /\ proc'[p].server = proc[p].server
      BY <2>1 DEF Goto, TypeOK, Invocation
    <2>2. Goto(p, "authorizing") /\ gone' = {h \in gone : h.url # Url[proc[p].server]}
      BY <1>2, <2>1 DEF FetchServer
    <2> QED
      BY <2>1, <2>2
  <1> QED
    BY <1>1, <1>2, Pinned

(* A step that opens no connection and moves no daemon: what is left to    *)
(* show of what the logouts cleared.                                       *)
LEMMA LogoutsFrame ==
    ASSUME session' = session,
           \A g \in gone' : Entry(g.basis, g.url) \notin tokens',
           \A g \in gone', p \in Procs :
              proc'[p].pc = "authorizing" => Url[proc'[p].server] # g.url,
           \A g \in gone', c \in Sessions, d \in Serving :
              session[c].pc \in {"open", "refreshing"}
                => Cache(d, session[c].server) # Entry(g.basis, g.url),
           \A d \in Procs : proc'[d].pc = "serving" => proc'[d] = proc[d]
    PROVE  LogoutsKept'
  <1>1. ASSUME NEW d \in Procs, proc'[d].pc = "serving"
        PROVE  d \in Serving /\ TokenDir(d)' = TokenDir(d)
    BY <1>1 DEF Serving, At, TokenDir
  <1>2. ASSUME NEW g \in gone', NEW c \in Sessions, NEW d \in Procs, proc'[d].pc = "serving",
               session[c].pc \in {"open", "refreshing"}
        PROVE  <<TokenDir(d)', Url[session[c].server]>> # Entry(g.basis, g.url)
    <2>1. Cache(d, session[c].server) # Entry(g.basis, g.url)
      BY <1>1, <1>2
    <2> QED
      BY <1>1, <1>2, <2>1 DEF Cache
  <1>3. ASSUME NEW g \in gone', NEW c \in Sessions, NEW d \in Procs, proc'[d].pc = "serving",
               session'[c].pc \in {"open", "refreshing"}
        PROVE  Cache(d, session[c].server)' # Entry(g.basis, g.url)
    BY <1>2, <1>3 DEF Cache
  <1>4. ASSUME NEW g \in gone', NEW c \in Sessions, NEW d \in Serving',
               session'[c].pc \in {"open", "refreshing"}
        PROVE  Cache(d, session[c].server)' # Entry(g.basis, g.url)'
    BY <1>3, <1>4 DEF Serving, At, Entry, Dir
  <1>5. \A g \in gone' : (Entry(g.basis, g.url) \notin tokens)'
    BY DEF Entry, Dir
  <1> QED
    BY <1>4, <1>5 DEF LogoutsKept

LEMMA LogoutsStep ==
    ASSUME TypeOK, DirsFollow, OneDaemon, LogoutsKept, [Next]_vars
    PROVE  LogoutsKept'
  <1>1. CASE tokens' = tokens /\ gone' = gone /\ session' \in {session, [c \in Sessions |-> Closed]}
    <2>1. ASSUME NEW g \in gone, NEW c \in Sessions, NEW d \in Procs, proc'[d].pc = "serving",
                 session'[c].pc \in {"open", "refreshing"}
          PROVE  Cache(d, session[c].server)' # Entry(g.basis, g.url)
      <3>1. session' = session
        BY <1>1, <2>1 DEF Closed
      <3>2. CASE proc'[d] = proc[d]
        BY <2>1, <3>1, <3>2 DEF LogoutsKept, Serving, At, Cache, TokenDir
      <3>3. CASE Serve(d)
        <4>1. CASE Serving = {}
          BY <2>1, <3>1, <4>1 DEF OneDaemon
        <4>2. CASE Serving # {}
          BY <2>1, <3>3, <4>2 DEF Serve, Exit, TypeOK, NoProc, Started
        <4> QED
          BY <4>1, <4>2
      <3> QED
        BY <2>1, <3>2, <3>3, Pinned
    <2>2. \A g \in gone, c \in Sessions, d \in Procs :
            proc'[d].pc = "serving" /\ session'[c].pc \in {"open", "refreshing"}
              => Cache(d, session[c].server)' # Entry(g.basis, g.url) /\ session' = session
      BY <1>1, <2>1 DEF Closed
    <2> QED
      BY <1>1, <2>2, AuthorizingStep DEF LogoutsKept, Entry, Dir, Cache, TokenDir, Serving, At
  <1>2. ASSUME NEW p \in Procs, FetchServer(p) PROVE LogoutsKept'
    <2>1. tokens' = tokens /\ session' = session /\ gone' \subseteq gone
      BY <1>2 DEF FetchServer
    <2>2. ASSUME NEW d \in Procs, proc'[d].pc = "serving" PROVE proc'[d] = proc[d]
      BY <1>2, <2>2 DEF FetchServer, Goto, TypeOK, Invocation
    <2>3. \A g \in gone', q \in Procs :
              proc'[q].pc = "authorizing" => Url[proc'[q].server] # g.url
      BY <2>1, AuthorizingStep
    <2> QED
      BY <2>1, <2>2, <2>3, LogoutsFrame DEF LogoutsKept
  <1>3. ASSUME NEW p \in Procs, Authorize(p) PROVE LogoutsKept'
    <2>1. session' = session /\ gone' = gone /\ proc[p].pc = "authorizing"
      BY <1>3 DEF Authorize, history, At
    <2>2. tokens' \subseteq tokens \cup {<<TokenDir(p), Url[proc[p].server]>>}
      BY <1>3 DEF Authorize, Cache
    <2>3. ASSUME NEW d \in Procs, proc'[d].pc = "serving" PROVE proc'[d] = proc[d]
      BY <1>3, <2>3 DEF Authorize, TypeOK, Invocation
    <2>4. \A g \in gone : Entry(g.basis, g.url) \notin tokens'
      BY <2>1, <2>2 DEF LogoutsKept, Entry
    <2>5. \A g \in gone', q \in Procs :
              proc'[q].pc = "authorizing" => Url[proc'[q].server] # g.url
      BY <2>1, AuthorizingStep
    <2> QED
      BY <2>1, <2>3, <2>4, <2>5, LogoutsFrame DEF LogoutsKept
  <1>4. ASSUME NEW p \in Procs, Clear(p) PROVE LogoutsKept'
    <2> DEFINE u == Url[proc[p].server]
               new == [basis |-> Basis(p), url |-> u]
    <2>1. proc[p].pc # "idle" /\ p \in Running
      BY <1>4 DEF Clear, At, Running
    <2>2. Entry(new.basis, new.url) = <<TokenDir(p), u>>
      BY <2>1 DEF DirsFollow, Entry
    <2>3. tokens' = tokens \ {<<TokenDir(p), u>>} /\ session' = session
      BY <1>4 DEF Clear, Cleared, Cache
    <2>4. gone' = gone \/ (gone' = gone \cup {new} /\ ~Holds(u))
      BY <1>4 DEF Clear, Cleared, Cache
    <2>5. \A q \in Procs : proc'[q].pc \in {"authorizing", "serving"} => proc'[q] = proc[q]
      BY <1>4 DEF Clear, Cleared, TypeOK, NoProc, Started
    <2> HIDE DEF new, u
    <2>6. ASSUME NEW g \in gone', g \in gone \/ (g = new /\ ~Holds(u))
          PROVE  /\ Entry(g.basis, g.url) \notin tokens'
                 /\ \A q \in Procs : proc'[q].pc = "authorizing" => Url[proc[q].server] # g.url
                 /\ \A c \in Sessions, d \in Serving :
                      session[c].pc \in {"open", "refreshing"}
                        => Cache(d, session[c].server) # Entry(g.basis, g.url)
      <3>1. CASE g \in gone
        BY <2>3, <2>5, <3>1 DEF LogoutsKept
      <3>2. CASE g = new /\ ~Holds(u)
        <4>1. g.url = u
          BY <3>2 DEF new
        <4>2. \A c \in Sessions : session[c].pc \in {"open", "refreshing"}
                                   => Url[session[c].server] # u
          BY <3>2 DEF Holds
        <4>3. \A q \in Procs : proc'[q].pc = "authorizing" => Url[proc[q].server] # u
          BY <2>5, <3>2 DEF Holds, At
        <4> QED
          BY <2>2, <2>3, <3>2, <4>1, <4>2, <4>3 DEF Cache
      <3> QED
        BY <2>6, <3>1, <3>2
    <2> QED
      BY <2>3, <2>4, <2>5, <2>6, LogoutsFrame
  <1>5. ASSUME NEW c \in Sessions, Session(c) PROVE LogoutsKept'
    <2>1. proc' = proc /\ gone' = gone
      BY <1>5 DEF Session, Connect, ReadCache, Unauthorized, BeginRefresh, Refreshed,
         Redirect, Disconnect, history
    <2>2. \A b \in Sessions : b # c => session'[b] = session[b]
      BY <1>5 DEF Session, Connect, ReadCache, Unauthorized, BeginRefresh, Refreshed,
         Redirect, Disconnect, Move, TypeOK
    <2>3. \A e \in tokens' : e \in tokens
             \/ \E d \in Serving : e = Cache(d, session[c].server) /\ session[c].pc = "refreshing"
      BY <1>5 DEF Session, Connect, ReadCache, Unauthorized, BeginRefresh, Refreshed,
         Redirect, Disconnect, Move
    <2>4. session'[c].pc \in {"open", "refreshing"} =>
             /\ session'[c].server = session[c].server
             /\ \/ session[c].pc \in {"open", "refreshing"}
                \/ \E d \in Serving : Cache(d, session[c].server) \in tokens
      <3>1. ASSUME NEW from, NEW to, Move(c, from, to)
            PROVE  /\ session[c].pc = from
                   /\ to # "closed" => /\ session'[c].pc = to
                                       /\ session'[c].server = session[c].server
                   /\ to = "closed" => session'[c].pc = "closed"
        BY <3>1 DEF Move, TypeOK, Connection, Closed
      <3>2. ASSUME NEW s \in Servers, Connect(c, s) PROVE session'[c].pc = "reading"
        BY <3>2 DEF Connect, TypeOK
      <3>3. CASE ReadCache(c)
        BY <3>1, <3>3 DEF ReadCache
      <3>4. CASE Unauthorized(c) \/ BeginRefresh(c) \/ Refreshed(c) \/ Redirect(c) \/ Disconnect(c)
        BY <3>1, <3>4 DEF Unauthorized, BeginRefresh, Refreshed, Redirect, Disconnect
      <3> QED
        BY <1>5, <3>2, <3>3, <3>4 DEF Session
    <2>5. ASSUME NEW g \in gone
          PROVE  /\ Entry(g.basis, g.url) \notin tokens'
                 /\ \A b \in Sessions, d \in Serving :
                      session'[b].pc \in {"open", "refreshing"}
                        => Cache(d, session'[b].server) # Entry(g.basis, g.url)
      <3>1. Entry(g.basis, g.url) \notin tokens'
        BY <2>3 DEF LogoutsKept
      <3>2. ASSUME NEW d \in Serving, session'[c].pc \in {"open", "refreshing"}
            PROVE  Cache(d, session'[c].server) # Entry(g.basis, g.url)
        BY <2>4, <3>2 DEF LogoutsKept, OneDaemon
      <3> QED
        BY <2>2, <3>1, <3>2 DEF LogoutsKept
    <2> QED
      BY <2>1, <2>5 DEF LogoutsKept, Entry, Dir, Cache, TokenDir, Serving, At
  <1> QED
    BY <1>1, <1>2, <1>3, <1>4, <1>5, LogoutFrames

-----------------------------------------------------------------------------
(* What a connection finds *)

(* All of the above together: what every reachable state satisfies. *)
CacheInv ==
    TypeOK /\ DirsFollow /\ OneDaemon /\ LoginsKept /\ LogoutsKept

LEMMA InitCache == Init => CacheInv
  <1> SUFFICES ASSUME Init PROVE CacheInv
    OBVIOUS
  <1>1. TypeOK
    BY InitTypes
  <1>2. \A p \in Procs : proc[p].pc = "idle"
    BY DEF Init, NoProc, Started
  <1>3. DirsFollow /\ Serving = {}
    BY <1>2 DEF DirsFollow, Running, Serving, At
  <1>4. \A c \in Sessions : session[c].pc = "closed"
    BY DEF Init, Closed
  <1>5. OneDaemon
    BY <1>3, <1>4 DEF OneDaemon
  <1>6. LoginsKept /\ LogoutsKept
    BY <1>2 DEF Init, LoginsKept, LogoutsKept
  <1> QED
    BY <1>1, <1>3, <1>5, <1>6 DEF CacheInv

LEMMA CacheStep == CacheInv /\ [Next]_vars => CacheInv'
  BY NextTypes, DirsStep, DaemonStep, LoginsStep, LogoutsStep DEF CacheInv

(* A connection that was reading and is not: it found the daemon's cache   *)
(* as that is now.                                                         *)
LEMMA WhatIsRead ==
    ASSUME TypeOK, OneDaemon, [Next]_vars, NEW c \in Sessions, NEW to \in {"open", "unauthorized"},
           Reads(c, to)
    PROVE  /\ Daemon \in Serving
           /\ (to = "open") <=> (Cache(Daemon, session[c].server) \in tokens)
  <1>1. ReadCache(c)
    <2>1. session'[c].pc \notin {"reading", "closed"} /\ session[c].pc = "reading"
      BY DEF Reads
    <2>2. ~(session' \in {session, [k \in Sessions |-> Closed]})
      BY <2>1 DEF Closed
    <2>3. \A p \in Procs : ~FetchServer(p) /\ ~Authorize(p) /\ ~Clear(p)
      BY <2>2 DEF FetchServer, Authorize, Clear, Cleared
    <2>4. PICK k \in Sessions : Session(k)
      BY <2>2, <2>3, LogoutFrames
    <2>5. k = c
      BY <2>1, <2>4 DEF Session, Connect, ReadCache, Unauthorized, BeginRefresh, Refreshed,
         Redirect, Disconnect, Move, TypeOK
    <2> QED
      BY <2>1, <2>4, <2>5 DEF Session, Connect, ReadCache, Unauthorized, BeginRefresh, Refreshed,
         Redirect, Disconnect, Move, Closed
  <1>2. PICK d \in Serving :
          Move(c, "reading", IF Cache(d, session[c].server) \in tokens THEN "open" ELSE "unauthorized")
    BY <1>1 DEF ReadCache
  <1>3. d \in Procs /\ \A e \in Serving : e = d
    BY <1>2 DEF OneDaemon, Serving
  <1>4. Daemon = d
    BY <1>2, <1>3 DEF Daemon
  <1>5. session'[c].pc = IF Cache(d, session[c].server) \in tokens THEN "open" ELSE "unauthorized"
    BY <1>2 DEF Move, TypeOK
  <1> QED
    BY <1>2, <1>4, <1>5 DEF Reads

(* A daemon that shares its configuration with b, as README.md means it,   *)
(* looks for its tokens where b puts them.                                 *)
LEMMA SharedDir ==
    ASSUME DirsFollow, NEW d \in Serving, NEW b, Agree(b, Basis(d)), NEW s
    PROVE  Cache(d, s) = Entry(b, Url[s])
  <1>1. d \in Running
    BY DEF Serving, At, Running
  <1> QED
    BY <1>1, AgreeingDirs DEF DirsFollow, Entry, Cache

(* A login that reported its tokens cached is what the next connection of  *)
(* a daemon with the same configuration finds, whatever ran and whatever   *)
(* was saved in between, until a logout (cli.py:105-108,                   *)
(* config.py:124-130).                                                     *)
THEOREM LoginsReach == Spec => LoginReachesDaemon
  <1>1. ASSUME CacheInv, [Next]_vars, NEW c \in Sessions, Reads(c, "unauthorized"),
               NEW l \in logged, Agree(l.basis, Basis(Daemon)),
               l.url = Url[session[c].server], l.logouts = logouts[l.url]
        PROVE  FALSE
    <2>1. Daemon \in Serving /\ Cache(Daemon, session[c].server) \notin tokens
      BY <1>1, WhatIsRead DEF CacheInv
    <2>2. Cache(Daemon, session[c].server) = Entry(l.basis, l.url)
      BY <1>1, <2>1, SharedDir DEF CacheInv
    <2> QED
      BY <1>1, <2>1, <2>2 DEF CacheInv, LoginsKept
  <1>2. CacheInv /\ [Next]_vars =>
          [\A c \in Sessions : Reads(c, "unauthorized") =>
             ~\E l \in logged : /\ Agree(l.basis, Basis(Daemon))
                                /\ l.url = Url[session[c].server]
                                /\ l.logouts = logouts[l.url]]_vars
    BY <1>1
  <1> QED
    BY <1>2, InitCache, CacheStep, PTL DEF Spec, LoginReachesDaemon

(* A connection a daemon with the same configuration opens after a logout  *)
(* finds no token, if no login was under way and no connection held them   *)
(* when the logout cleared the cache (cli.py:597-599).                     *)
THEOREM LogoutsHold == Spec => LogoutHolds
  <1>1. ASSUME CacheInv, [Next]_vars, NEW c \in Sessions, Reads(c, "open"),
               NEW g \in gone, Agree(g.basis, Basis(Daemon)), g.url = Url[session[c].server]
        PROVE  FALSE
    <2>1. Daemon \in Serving /\ Cache(Daemon, session[c].server) \in tokens
      BY <1>1, WhatIsRead DEF CacheInv
    <2>2. Cache(Daemon, session[c].server) = Entry(g.basis, g.url)
      BY <1>1, <2>1, SharedDir DEF CacheInv
    <2> QED
      BY <1>1, <2>1, <2>2 DEF CacheInv, LogoutsKept
  <1>2. CacheInv /\ [Next]_vars =>
          [\A c \in Sessions : Reads(c, "open") =>
             ~\E g \in gone : /\ Agree(g.basis, Basis(Daemon))
                              /\ g.url = Url[session[c].server]]_vars
    BY <1>1
  <1> QED
    BY <1>2, InitCache, CacheStep, PTL DEF Spec, LogoutHolds
=============================================================================
