------------------------------- MODULE Daemon -------------------------------
(***************************************************************************)
(* main() of src/main/main.c: the start-up ladder (locale, libevent        *)
(* threads, parse_args, dpdk_log_init, dpdk_init, event_base_new,          *)
(* modules_init, listen_api_socket, register_signals, READY), the reactor  *)
(* run until a signal, and the shutdown ladder its goto labels share       *)
(* (shutdown:, dpdk_stop:, end:).  Every external call may fail; a failure *)
(* takes the goto of its call site.  One step is one stretch of main()     *)
(* between two calls that may fail.                                        *)
(*                                                                         *)
(* The module registry of control.c is composed in: the constructors run   *)
(* before main(), modules_init() runs right after event_base_new(), and    *)
(* modules_fini() in the shutdown ladder when ev_base is set.              *)
(*                                                                         *)
(* The daemon shares its socket path (GROUT_SOCK_PATH or the default) with *)
(* the rest of the machine: the path may hold a file left by an instance   *)
(* that was killed, and, when Others is TRUE, another grout process runs   *)
(* the same main() on the same path.  Of that process only what it does to *)
(* the path is kept: bind() at start, and the unlink() of its shutdown.    *)
(***************************************************************************)
EXTENDS Naturals, Sequences, SequencesExt

CONSTANTS
    Mods, InitPrio, FiniPrio, WithInit, WithFini, Handlers, ReqType, IntBits,
    StalePath,   \* TRUE: a killed instance may have left its socket file
    Others,      \* TRUE: another grout process is started on the same path
    MaxArgs      \* the longest command line tried

VARIABLES
    modules, handlers, phase, calls,   \* the registry (Registry)
    pc,          \* where main() is
    path,        \* the file at the socket path: "none", "self", "other"
                 \* (the file the other process bound) or "stale"
    lfd,         \* the listening socket: "none", "bound", "listening", "closed"
    closes,      \* close() calls made on that descriptor
    evl,         \* ev_listen != NULL
    evb,         \* ev_base != NULL
    err,         \* err != 0
    ret,         \* ret
    notes,       \* the sd_notifyf() messages sent, in order
    other        \* the other process: "absent", "serving", "exited"

Reg == INSTANCE Registry

regvars == <<modules, handlers, phase, calls>>
mainvars == <<pc, lfd, closes, evl, evb, err, ret, notes>>
vars == <<regvars, mainvars, path, other>>

-----------------------------------------------------------------------------
(* main(), top to bottom.                                                  *)

\* The constructors have run: main() is entered.  A duplicate handler made
\* one of them ABORT, and the process is gone before main().
EnterMain ==
    /\ pc = "ctor"
    /\ phase = "ctor"
    /\ Range(modules) = Mods /\ Range(handlers) = Handlers
    /\ pc' = "main"
    /\ UNCHANGED <<regvars, path, lfd, closes, evl, evb, err, ret, notes, other>>

\* What getopt_long() returns for each argument of the command line: -h,
\* -V, -s PATH, -v (standing for the other flags), -s without its value
\* (':'), an unknown option ('?'), and an operand (which GNU getopt moves
\* to the end, so that it never stops the loop).
Opts == {"h", "V", "s", "v", "colon", "unknown", "operand"}

\* parse_args(): the first -h, ':' or '?' returns -1, the first -V exits
\* with EXIT_SUCCESS; without either, an operand left at optind returns
\* EINVAL.  "fail", "version" or "ok".
ParseArgs(argv) ==
    LET stops == SelectSeq(argv, LAMBDA o : o \in {"h", "V", "colon", "unknown"})
    IN  IF stops # <<>>
        THEN IF Head(stops) = "V" THEN "version" ELSE "fail"
        ELSE IF \E i \in DOMAIN argv : argv[i] = "operand" THEN "fail" ELSE "ok"

\* setlocale() or evthread_use_pthreads() failing (goto end with err = 0);
\* parse_args() on a command line of up to MaxArgs arguments failing (goto
\* end, err = 0) or exiting for -V; then dpdk_log_init() failing (err =
\* errno, goto end) or succeeding.
StartMain ==
    /\ pc = "main"
    /\ \/ pc' = "exited" /\ UNCHANGED <<err, ret>>
       \/ \E argv \in BoundedSeq(Opts, MaxArgs) :
            LET a == ParseArgs(argv) IN
            \/ a = "fail" /\ pc' = "exited" /\ UNCHANGED <<err, ret>>
            \/ a = "version" /\ pc' = "exited" /\ ret' = 0 /\ UNCHANGED err
            \/ a = "ok" /\ pc' = "exited" /\ err' = TRUE /\ UNCHANGED ret
            \/ a = "ok" /\ pc' = "dpdk" /\ UNCHANGED <<err, ret>>
    /\ UNCHANGED <<regvars, path, lfd, closes, evl, evb, notes, other>>

\* The dpdk_stop: and end: labels: dpdk_fini(), ERRNO if err != 0, return.
DpdkStop(e) ==
    /\ notes' = IF e THEN Append(notes, "ERRNO") ELSE notes
    /\ pc' = "exited"

\* dpdk_init(): on failure err = errno and goto dpdk_stop.
DpdkInit ==
    /\ pc = "dpdk"
    /\ \/ err' = TRUE /\ DpdkStop(TRUE)
       \/ pc' = "evbase" /\ UNCHANGED <<err, notes>>
    /\ UNCHANGED <<regvars, path, lfd, closes, evl, evb, ret, other>>

\* event_base_new(), then modules_init() (a module's init failing aborts
\* the process from inside it, which the model leaves out).
EventBaseNew ==
    /\ pc = "evbase"
    /\ \/ /\ err' = TRUE /\ pc' = "shutdown"
          /\ UNCHANGED <<regvars, evb>>
       \/ /\ evb' = TRUE /\ Reg!modules_init /\ pc' = "listen"
          /\ UNCHANGED err
    /\ UNCHANGED <<path, lfd, closes, evl, ret, notes, other>>

\* listen_api_socket(): socket() failing; bind() failing with EADDRINUSE
\* because the path holds a file (the fd is closed); or bind() creating the
\* file, then listen(), event_new() or event_add() failing (the fd is
\* closed, and ev_listen stays set when only event_add() failed), or the
\* listener armed.  Any failure: err = errno, goto shutdown.
ListenApiSocket ==
    /\ pc = "listen"
    /\ \/ /\ err' = TRUE /\ pc' = "shutdown"
          /\ UNCHANGED <<path, lfd, closes, evl>>
       \/ /\ path # "none"
          /\ err' = TRUE /\ pc' = "shutdown"
          /\ closes' = closes + 1
          /\ UNCHANGED <<path, lfd, evl>>
       \/ /\ path = "none"
          /\ path' = "self"
          /\ \/ err' = TRUE /\ pc' = "shutdown" /\ lfd' = "closed"
                /\ closes' = closes + 1 /\ UNCHANGED evl
             \/ err' = TRUE /\ pc' = "shutdown" /\ lfd' = "closed"
                /\ closes' = closes + 1 /\ evl' = TRUE
             \/ lfd' = "listening" /\ evl' = TRUE /\ pc' = "signals"
                /\ UNCHANGED <<err, closes>>
    /\ UNCHANGED <<regvars, evb, ret, notes, other>>

\* register_signals(), then READY=1 (a failed sd_notifyf() is only logged).
RegisterSignals ==
    /\ pc = "signals"
    /\ \/ err' = TRUE /\ pc' = "shutdown" /\ UNCHANGED notes
       \/ notes' = Append(notes, "READY") /\ pc' = "serve" /\ UNCHANGED err
    /\ UNCHANGED <<regvars, path, lfd, closes, evl, evb, ret, other>>

\* event_base_dispatch() returns: 0 after SIGINT/SIGTERM/SIGQUIT broke the
\* loop (ret = EXIT_SUCCESS, STOPPING=1), or -1 (err = errno).
Dispatch ==
    /\ pc = "serve"
    /\ \/ ret' = 0 /\ notes' = Append(notes, "STOPPING") /\ UNCHANGED err
       \/ err' = TRUE /\ UNCHANGED <<ret, notes>>
    /\ pc' = "shutdown"
    /\ UNCHANGED <<regvars, path, lfd, closes, evl, evb, other>>

\* Mutant: the socket file is left behind.
Shutdown_nounlink ==
    /\ pc = "shutdown"
    /\ IF evl THEN closes' = closes + 1 /\ lfd' = "closed"
              ELSE UNCHANGED <<closes, lfd>>
    /\ IF evb THEN Reg!modules_fini ELSE UNCHANGED regvars
    /\ DpdkStop(err)
    /\ UNCHANGED <<path, evl, evb, err, ret, other>>

\* The shutdown: label: unregister_signals(); ev_listen's finalizer closes
\* the listening fd; modules_fini() if ev_base; unlink() of the socket path,
\* whoever's file it is; then dpdk_stop:.
Shutdown ==
    /\ pc = "shutdown"
    /\ IF evl THEN closes' = closes + 1 /\ lfd' = "closed"
              ELSE UNCHANGED <<closes, lfd>>
    /\ IF evb THEN Reg!modules_fini ELSE UNCHANGED regvars
    /\ path' = "none"
    /\ DpdkStop(err)
    /\ UNCHANGED <<evl, evb, err, ret, other>>

\* SIGKILL or a crash anywhere in main(): the kernel closes the socket, and
\* its file stays at the path.
Kill ==
    /\ pc \notin {"ctor", "exited", "killed"}
    /\ pc' = "killed"
    /\ lfd' = IF lfd = "none" THEN "none" ELSE "closed"
    /\ path' = IF path = "self" THEN "stale" ELSE path
    /\ UNCHANGED <<regvars, closes, evl, evb, err, ret, notes, other>>

-----------------------------------------------------------------------------
(* The other process on the same path.                                     *)

\* Its listen_api_socket(): bind() succeeds on a free path; on a taken one
\* it fails, and its shutdown ladder unlinks the path.
OtherStart ==
    /\ Others /\ other = "absent"
    /\ IF path = "none"
       THEN path' = "other" /\ other' = "serving"
       ELSE path' = "none" /\ other' = "exited"
    /\ UNCHANGED <<regvars, mainvars>>

\* It is stopped by a signal: its shutdown ladder unlinks the path.
OtherStop ==
    /\ other = "serving"
    /\ other' = "exited"
    /\ path' = "none"
    /\ UNCHANGED <<regvars, mainvars>>

-----------------------------------------------------------------------------

Init ==
    /\ Reg!Init
    /\ pc = "ctor"
    /\ path \in IF StalePath THEN {"none", "stale"} ELSE {"none"}
    /\ lfd = "none"
    /\ closes = 0
    /\ evl = FALSE
    /\ evb = FALSE
    /\ err = FALSE
    /\ ret = 1
    /\ notes = <<>>
    /\ other = "absent"

\* Constructors register modules and handlers before main().
Ctor ==
    /\ pc = "ctor"
    /\ \/ \E m \in Mods : Reg!br_register_module(m)
       \/ \E h \in Handlers : Reg!br_register_api_handler(h)
    /\ UNCHANGED <<mainvars, path, other>>

Next ==
    \/ Ctor \/ EnterMain \/ StartMain \/ DpdkInit \/ EventBaseNew
    \/ ListenApiSocket \/ RegisterSignals \/ Dispatch \/ Shutdown \/ Kill
    \/ OtherStart \/ OtherStop

Spec == Init /\ [][Next]_vars

-----------------------------------------------------------------------------
(* Properties.                                                             *)

\* Every variable holds a value of its type.
TypeOK ==
    /\ Reg!TypeOK
    /\ pc \in {"ctor", "main", "dpdk", "evbase", "listen", "signals", "serve",
               "shutdown", "exited", "killed"}
    /\ path \in {"none", "self", "other", "stale"}
    /\ lfd \in {"none", "bound", "listening", "closed"}
    /\ closes \in Nat /\ evl \in BOOLEAN /\ evb \in BOOLEAN
    /\ err \in BOOLEAN /\ ret \in {0, 1}
    /\ notes \in Seq({"READY", "STOPPING", "ERRNO"})
    /\ other \in {"absent", "serving", "exited"}

\* The registry's ordering, now with main() deciding whether modules_init()
\* and modules_fini() run at all.
ModuleOrder == Reg!ModuleOrder

\* A daemon stopped by a signal (spec, scenario 5) exits with status 0,
\* having announced READY and then STOPPING and no ERRNO, with every init
\* followed by the fini pass, its listening socket closed exactly once and
\* no socket file of its own left at the path.
CleanStop ==
    (pc = "exited" /\ Contains(notes, "STOPPING")) =>
        /\ ret = 0
        /\ notes = <<"READY", "STOPPING">>
        /\ phase = "done"
        /\ lfd = "closed" /\ closes = 1
        /\ path # "self"

\* A daemon that failed reports its errno on the readiness channel
\* (spec section 6: on fatal error, the channel receives ERRNO=<n>).
FailureReported == (pc = "exited" /\ err) => Contains(notes, "ERRNO")

\* The listening descriptor is closed at most once: a second close() could
\* close a descriptor the process has opened since.
ListenerClosedOnce == closes <= 1

\* While a daemon serves, its socket path names its own listening socket:
\* clients can reach the daemon that announced READY.
SocketReachable ==
    /\ pc = "serve" => path = "self"
    /\ other = "serving" => path = "other"
=============================================================================
