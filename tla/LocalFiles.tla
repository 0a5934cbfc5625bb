----------------------------- MODULE LocalFiles -----------------------------
(***************************************************************************)
(* What the fast-gateway processes of one user share on one machine: the   *)
(* configuration files they start from (fast_gateway/config.py) and the    *)
(* cache of OAuth tokens the CLI fills and the daemon reads                *)
(* (fast_gateway/plugins/oauth/plugin.py).  Processes are `serve`, `login` *)
(* and `logout`; an action is what one of them does between two accesses   *)
(* to a file or to the network.  Nothing locks the files.                  *)
(*                                                                         *)
(* A configuration is what this needs of it: where it puts the tokens, its *)
(* policy, and whether the policy is in a file of its own.  A token is     *)
(* there or not: whether it is live is up to the upstream, so a session    *)
(* may find it has to be refreshed at any time.                            *)
(***************************************************************************)
EXTENDS Naturals

CONSTANTS
    Procs,          \* slots for processes
    Cwds,           \* directories they are started in
    DefaultPath,    \* ~/.fast-gateway/gateway.json
    LocalConfig,    \* the gateway.json of each directory
    NoPath,         \* no option and no variable names a configuration
    Policies,
    Absolute, Relative, Unset,  \* values of oauth_token_dir
    Presets,        \* of FAST_GATEWAY_OAUTH_DIR, in the shell
    Written,        \* configurations the user writes
    DefaultConfig,  \* _DEFAULT_CONFIG_JSON
    Absent, Partial,    \* a file that is not there, or opened for writing
    Servers,        \* registered, with auth = oauth
    Url,            \* of each server: what its tokens are filed under
    Sessions,       \* the daemon's connections to upstreams
    MaxStarts,      \* bound: processes started
    MaxEdits        \* bound: files the user writes

Settings == {Absolute, Relative, Unset}

Configs == [oauth_token_dir : Settings,
            policy : Policies, policy_file : BOOLEAN]

Paths == {DefaultPath} \cup {LocalConfig[d] : d \in Cwds}
Urls == {Url[s] : s \in Servers}
Commands == {"serve", "login", "logout"}

ASSUME LocalFilesAssumption ==
    /\ DOMAIN LocalConfig = Cwds
    /\ DOMAIN Url = Servers
    /\ NoPath \notin Paths
    /\ Presets \subseteq Settings
    /\ Written \subseteq Configs
    /\ DefaultConfig \in Configs
    /\ ~DefaultConfig.policy_file
    /\ Absent # Partial
    /\ {Absent, Partial} \cap (Configs \cup Policies) = {}
    /\ MaxStarts \in Nat
    /\ MaxEdits \in Nat

VARIABLES
    files,      \* the configuration files
    policyFile, \* the file a configuration may take its policy from
    editing,    \* the configuration the user's editor is writing
    edits,
    proc,       \* processes: program counter and locals
    starts,
    tokens,     \* cached: pairs <<directory, url>>
    session,    \* the daemon's connections
    whole,      \* history: the configurations each file has held
    logouts,    \* history: how often the tokens of a url were cleared
    logged,     \* history: logins that ended with "tokens cached"
    gone        \* history: logouts that no holder of the tokens witnessed

disk == <<files, policyFile, editing, edits, whole>>
history == <<logouts, logged, gone>>
vars == <<disk, proc, starts, tokens, session, history>>

Started(pc, command, cwd, named, preset, s) ==
    [pc |-> pc, command |-> command, cwd |-> cwd, named |-> named,
     preset |-> preset, oauth_dir |-> preset, server |-> s,
     path |-> NoPath, cfg |-> DefaultConfig, logouts |-> 0]

NoProc == Started("idle", "serve", NoPath, NoPath, Unset, NoPath)
Closed == [pc |-> "closed", server |-> NoPath]

At(p, pc) == proc[p].pc = pc
Goto(p, pc) == proc' = [proc EXCEPT ![p].pc = pc]
Serving == {p \in Procs : At(p, "serving")}

(* default_oauth_token_dir(): a relative path is taken from the working    *)
(* directory, where load_config resolves db and policy_file against the    *)
(* directory of the configuration.                                         *)
TokenDir(p) ==
    IF proc[p].oauth_dir = Relative THEN <<proc[p].cwd, Relative>>
                                    ELSE <<NoPath, proc[p].oauth_dir>>

(* build_oauth(server): the cache entry its provider reads and writes. *)
Cache(p, s) == <<TokenDir(p), Url[s]>>

(* What a process was started with. *)
Basis(p) == [path |-> proc[p].path, cfg |-> proc[p].cfg,
             preset |-> proc[p].preset, cwd |-> proc[p].cwd]

Init ==
    /\ files \in [Paths -> {Absent} \cup Written]
    /\ files[DefaultPath] = Absent
    /\ policyFile \in Policies \cup {Absent}
    /\ editing = NoPath
    /\ edits = 0
    /\ proc = [p \in Procs |-> NoProc]
    /\ starts = 0
    /\ tokens = {}
    /\ session = [c \in Sessions |-> Closed]
    /\ whole = [f \in Paths |-> {files[f]} \ {Absent}]
    /\ logouts = [u \in Urls |-> 0]
    /\ logged = {}
    /\ gone = {}

-----------------------------------------------------------------------------
(* The user, who may save a configuration at any time. *)

EditBegin(f) ==
    /\ editing = NoPath
    /\ edits < MaxEdits
    /\ editing' = f
    /\ edits' = edits + 1
    /\ files' = [files EXCEPT ![f] = Partial]
    /\ UNCHANGED <<policyFile, whole, proc, starts, tokens, session, history>>

EditEnd(c) ==
    /\ editing # NoPath
    /\ editing' = NoPath
    /\ files' = [files EXCEPT ![editing] = c]
    /\ whole' = [whole EXCEPT ![editing] = @ \cup {c}]
    /\ UNCHANGED <<policyFile, edits, proc, starts, tokens, session, history>>

-----------------------------------------------------------------------------
(* A process starts, finds its configuration and loads it. *)

Start(p, command, cwd, named, preset, s) ==
    /\ At(p, "idle")
    /\ starts < MaxStarts
    /\ starts' = starts + 1
    /\ proc' = [proc EXCEPT ![p] =
                  Started("resolving", command, cwd, named, preset, s)]
    /\ UNCHANGED <<disk, tokens, session, history>>

(* The process ends with exit code 1, a traceback or a kill, and with it   *)
(* what the daemon held open.                                              *)
Exit(p) ==
    /\ proc' = [proc EXCEPT ![p] = NoProc]
    /\ session' = IF At(p, "serving") THEN [c \in Sessions |-> Closed] ELSE session
    /\ UNCHANGED <<disk, starts, tokens, history>>

Die(p) == ~At(p, "idle") /\ Exit(p)

(* resolve_config_path() returns f. *)
Load(p, f) ==
    /\ proc' = [proc EXCEPT ![p].pc = "loading", ![p].path = f]
    /\ UNCHANGED <<disk, starts, tokens, session, history>>

(* resolve_config_path() up to write_default_config. *)
Resolve(p) ==
    LET named == proc[p].named
        local == LocalConfig[proc[p].cwd]
    IN  /\ At(p, "resolving")
        /\ \/ named # NoPath /\ files[named] # Absent /\ Load(p, named)
           \/ named # NoPath /\ files[named] = Absent /\ Exit(p)
           \/ named = NoPath /\ files[local] # Absent /\ Load(p, local)
           \/ /\ named = NoPath
              /\ files[local] = Absent
              /\ IF files[DefaultPath] # Absent
                   THEN Load(p, DefaultPath)
                   ELSE /\ Goto(p, "creating")
                        /\ UNCHANGED <<disk, starts, tokens, session, history>>

(* write_default_config: open("w"), then the text at close. *)
CreateDefault(p) ==
    /\ At(p, "creating")
    /\ Goto(p, "writing")
    /\ files' = [files EXCEPT ![DefaultPath] = Partial]
    /\ UNCHANGED <<policyFile, editing, edits, whole, starts, tokens, session, history>>

WriteDefault(p) ==
    /\ At(p, "writing")
    /\ proc' = [proc EXCEPT ![p].pc = "loading", ![p].path = DefaultPath]
    /\ files' = [files EXCEPT ![DefaultPath] = DefaultConfig]
    /\ whole' = [whole EXCEPT ![DefaultPath] = @ \cup {DefaultConfig}]
    /\ UNCHANGED <<policyFile, editing, edits, starts, tokens, session, history>>

(* Fault: a file that does not parse counts as an empty one. *)
BugParsed(f) == IF files[f] = Partial THEN DefaultConfig ELSE files[f]

(* _read_json_object: half a file does not parse. *)
Parsed(f) == files[f]

(* Fault: only the daemon applies the directory. *)
BugApplied(p, c) ==
    IF c.oauth_token_dir # Unset /\ proc[p].command = "serve"
      THEN c.oauth_token_dir ELSE proc[p].preset

(* apply_oauth_token_dir *)
Applied(p, c) ==
    IF c.oauth_token_dir # Unset THEN c.oauth_token_dir ELSE proc[p].preset

(* load_config: the policy file, if one is named, replaces the policy, and *)
(* no error of either file is caught.                                      *)
LoadConfig(p) ==
    LET c == Parsed(proc[p].path)
        policy == IF c.policy_file THEN policyFile ELSE c.policy
    IN  /\ At(p, "loading")
        /\ IF c \in {Absent, Partial} \/ policy = Absent
             THEN Exit(p)
             ELSE /\ proc' = [proc EXCEPT ![p].pc = "loaded",
                                         ![p].cfg = [c EXCEPT !.policy = policy],
                                         ![p].oauth_dir = Applied(p, c)]
                  /\ UNCHANGED <<disk, starts, tokens, session, history>>

(* uvicorn.run(build_app(cfg)): the port is free for one. *)
Serve(p) ==
    /\ At(p, "loaded")
    /\ proc[p].command = "serve"
    /\ IF Serving = {}
         THEN /\ Goto(p, "serving")
              /\ UNCHANGED <<disk, starts, tokens, session, history>>
         ELSE Exit(p)

-----------------------------------------------------------------------------
(* login and logout.  Each asks the gateway for the server first: without  *)
(* one, or when it knows no such server with auth = oauth, it exits 1.     *)

(* A provider for url u that has the tokens in memory, or is about to. *)
Holds(u) ==
    \/ \E c \in Sessions : session[c].pc \in {"open", "refreshing"} /\ Url[session[c].server] = u
    \/ \E p \in Procs : At(p, "authorizing") /\ Url[proc[p].server] = u

FetchServer(p) ==
    LET u == Url[proc[p].server]
    IN  /\ At(p, "loaded")
        /\ Serving # {}
        /\ \/ /\ proc[p].command = "login"
              /\ Goto(p, "authorizing")
              /\ gone' = {g \in gone : g.url # u}
           \/ /\ proc[p].command = "logout"
              /\ Goto(p, "looking")
              /\ UNCHANGED gone
        /\ UNCHANGED <<disk, starts, tokens, session, logouts, logged>>

FetchFails(p) ==
    /\ At(p, "loaded")
    /\ proc[p].command # "serve"
    /\ Exit(p)

(* run_oauth_login(): tokens of the cache that still serve, or the browser *)
(* and new ones.                                                           *)
Authorize(p) ==
    LET entry == Cache(p, proc[p].server)
    IN  /\ At(p, "authorizing")
        /\ proc' = [proc EXCEPT ![p].pc = "pinging", ![p].logouts = logouts[entry[2]]]
        /\ \E again \in BOOLEAN :
              /\ entry \notin tokens => again
              /\ tokens' = IF again THEN tokens \cup {entry} ELSE tokens
        /\ UNCHANGED <<disk, starts, session, history>>

(* The flow is abandoned, or the upstream does not answer the ping. *)
LoginFails(p) ==
    /\ \/ At(p, "authorizing")
       \/ At(p, "pinging")
    /\ Exit(p)

(* "Login complete; tokens cached." *)
LoginEnds(p) ==
    /\ At(p, "pinging")
    /\ logged' = logged \cup {[basis |-> Basis(p), url |-> Url[proc[p].server],
                               logouts |-> proc[p].logouts]}
    /\ proc' = [proc EXCEPT ![p] = NoProc]
    /\ UNCHANGED <<disk, starts, tokens, session, logouts, gone>>

(* existed = await get_tokens() is not None: for the message only. *)
Look(p) ==
    /\ At(p, "looking")
    /\ Goto(p, IF Cache(p, proc[p].server) \in tokens THEN "clearing" ELSE "nothing to clear")
    /\ UNCHANGED <<disk, starts, tokens, session, history>>

Cleared(p) ==
    LET entry == Cache(p, proc[p].server)
        u == entry[2]
    IN  /\ logouts' = [logouts EXCEPT ![u] = @ + 1]
        /\ gone' = IF Holds(u) THEN gone
                                ELSE gone \cup {[basis |-> Basis(p), url |-> u]}
        /\ proc' = [proc EXCEPT ![p] = NoProc]
        /\ UNCHANGED <<disk, starts, session, logged>>

(* Fault: the directory is looked up before the configuration is applied. *)
BugClear(p) ==
    /\ At(p, "clearing") \/ At(p, "nothing to clear")
    /\ tokens' = tokens \ {<<<<NoPath, proc[p].preset>>, Url[proc[p].server]>>}
    /\ Cleared(p)

(* await clear(), and the command ends. *)
Clear(p) ==
    /\ At(p, "clearing") \/ At(p, "nothing to clear")
    /\ tokens' = tokens \ {Cache(p, proc[p].server)}
    /\ Cleared(p)

-----------------------------------------------------------------------------
(* The daemon connects to an upstream (OAuthPlugin._attach_oauth): a new   *)
(* provider for each connection, which reads the cache once and from then  *)
(* on works from memory.                                                   *)

Move(c, from, to) ==
    /\ session[c].pc = from
    /\ session' = [session EXCEPT ![c] = IF to = "closed" THEN Closed ELSE [@ EXCEPT !.pc = to]]

Connect(c, s) ==
    /\ Serving # {}
    /\ session[c] = Closed
    /\ session' = [session EXCEPT ![c] = [pc |-> "reading", server |-> s]]
    /\ UNCHANGED <<disk, proc, starts, tokens, history>>

ReadCache(c) ==
    /\ \E d \in Serving :
         Move(c, "reading", IF Cache(d, session[c].server) \in tokens THEN "open" ELSE "unauthorized")
    /\ UNCHANGED <<disk, proc, starts, tokens, history>>

(* The token is refused, or expires and is refreshed.  The new one is      *)
(* written whatever became of the old one meanwhile.                       *)
Unauthorized(c) ==
    /\ \/ Move(c, "open", "unauthorized")
       \/ Move(c, "refreshing", "unauthorized")
    /\ UNCHANGED <<disk, proc, starts, tokens, history>>

BeginRefresh(c) ==
    /\ Move(c, "open", "refreshing")
    /\ UNCHANGED <<disk, proc, starts, tokens, history>>

Refreshed(c) ==
    /\ Move(c, "refreshing", "open")
    /\ tokens' = tokens \cup {Cache(d, session[c].server) : d \in Serving}
    /\ UNCHANGED <<disk, proc, starts, history>>

(* _NonInteractiveOAuth.redirect_handler raises: no browser opens here. *)
Redirect(c) ==
    /\ Move(c, "unauthorized", "closed")
    /\ UNCHANGED <<disk, proc, starts, tokens, history>>

Disconnect(c) ==
    /\ Move(c, "open", "closed")
    /\ UNCHANGED <<disk, proc, starts, tokens, history>>

-----------------------------------------------------------------------------

User ==
    \/ \E f \in Paths : EditBegin(f)
    \/ \E c \in Written : EditEnd(c)
    \/ \E p \in Procs, command \in Commands, cwd \in Cwds,
          named \in {NoPath} \cup Paths, preset \in Presets, s \in Servers :
         Start(p, command, cwd, named, preset, s)

Process(p) ==
    \/ Resolve(p) \/ CreateDefault(p) \/ WriteDefault(p) \/ LoadConfig(p)
    \/ Serve(p) \/ FetchServer(p) \/ FetchFails(p)
    \/ Authorize(p) \/ LoginFails(p) \/ LoginEnds(p)
    \/ Look(p) \/ Clear(p)
    \/ Die(p)

Session(c) ==
    \/ \E s \in Servers : Connect(c, s)
    \/ ReadCache(c) \/ Unauthorized(c) \/ BeginRefresh(c)
    \/ Refreshed(c) \/ Redirect(c) \/ Disconnect(c)

Next ==
    \/ User
    \/ \E p \in Procs : Process(p)
    \/ \E c \in Sessions : Session(c)

Spec == Init /\ [][Next]_vars

-----------------------------------------------------------------------------
(* Properties                                                              *)

Running == {p \in Procs : proc[p].pc \notin
                {"idle", "resolving", "creating", "writing", "loading"}}

Stages == {"idle", "resolving", "creating", "writing", "loading", "loaded", "serving",
           "authorizing", "pinging", "looking", "clearing", "nothing to clear"}

Invocation == [pc : Stages, command : Commands, cwd : Cwds \cup {NoPath},
             named : Paths \cup {NoPath}, preset : Settings,
             server : Servers \cup {NoPath}, path : Paths \cup {NoPath},
             cfg : Configs, oauth_dir : Settings, logouts : Nat]

Connection == [pc : {"closed", "reading", "open", "refreshing", "unauthorized"},
               server : Servers \cup {NoPath}]

(* Every variable has its type; a process that runs has a directory, a     *)
(* server and, once it is resolved, a path.                                *)
TypeOK ==
    /\ files \in [Paths -> Configs \cup {Absent, Partial}]
    /\ policyFile \in Policies \cup {Absent}
    /\ editing \in Paths \cup {NoPath}
    /\ edits \in 0..MaxEdits
    /\ proc \in [Procs -> Invocation]
    /\ \A p \in Procs :
         /\ proc[p].pc # "idle" => proc[p].cwd \in Cwds /\ proc[p].server \in Servers
         /\ proc[p].pc \notin {"idle", "resolving", "creating", "writing"}
              => proc[p].path \in Paths
    /\ starts \in 0..MaxStarts
    /\ tokens \subseteq ((Cwds \cup {NoPath}) \X Settings) \X Urls
    /\ session \in [Sessions -> Connection]
    /\ \A c \in Sessions : session[c].pc # "closed" => session[c].server \in Servers
    /\ whole \in [Paths -> SUBSET Configs]
    /\ logouts \in [Urls -> Nat]

(* A process runs with a configuration that was whole in its file at some  *)
(* time, with the policy that one names: never with a half-saved or        *)
(* half-created file, and never with defaults nobody wrote there           *)
(* (config.py:104-110, 135-161, 190-195).                                  *)
RunsItsConfig ==
    \A p \in Running : \E c \in whole[proc[p].path] :
        proc[p].cfg = [c EXCEPT !.policy = IF c.policy_file THEN policyFile ELSE @]

(* Two processes that share their configuration as README.md:308-312 means *)
(* it: one file, unchanged, with a directory that means the same to both.  *)
Agree(a, b) ==
    /\ a.path = b.path
    /\ a.cfg = b.cfg
    /\ a.preset = b.preset
    /\ Relative \in {a.cfg.oauth_token_dir, a.preset} => a.cwd = b.cwd

Reads(c, to) == session[c].pc = "reading" /\ session'[c].pc = to
Daemon == CHOOSE d \in Procs : d \in Serving

(* What login reported cached is what the daemon's next connection finds,  *)
(* until a logout (cli.py:105-108, config.py:124-130).                     *)
LoginReachesDaemon ==
    [][\A c \in Sessions : Reads(c, "unauthorized") =>
         ~\E l \in logged : /\ Agree(l.basis, Basis(Daemon))
                            /\ l.url = Url[session[c].server]
                            /\ l.logouts = logouts[l.url]]_vars

(* After a logout the next connection requires a fresh login, if none was  *)
(* under way and no connection of the daemon held the tokens               *)
(* (cli.py:597-599).                                                       *)
LogoutHolds ==
    [][\A c \in Sessions : Reads(c, "open") =>
         ~\E g \in gone : /\ Agree(g.basis, Basis(Daemon))
                          /\ g.url = Url[session[c].server]]_vars
=============================================================================
