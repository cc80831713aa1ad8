--------------------------- MODULE ConnectionLife ---------------------------
(***************************************************************************)
(* The life of a struct s2n_connection (s2n_connection.c, s2n_socket.c):   *)
(* made, given a config, file descriptors and overrides, used, blinded     *)
(* after an error, shut down, wiped to be used again, and freed.           *)
(*                                                                         *)
(* Memory is the set of the names of the members that own some.  The I/O   *)
(* contexts of descriptors are allocated on their own, the library's are   *)
(* numbered, AppContext is the application's.  A step that allocates may   *)
(* fail, Failures times in a behaviour.  A config is not changed once a    *)
(* connection has been given it.                                           *)
(***************************************************************************)
EXTENDS Config

CONSTANTS
    AppConfigs,   \* what the application's two configs may be: functions on AppIds
    Fds,          \* its sockets
    MinDelay,     \* the shortest and the longest delay of an error, in ticks
    MaxDelay,
    LateAuth,     \* whether the client auth type is set after the config, too
    MaxCalls,     \* bound: calls of the application but s2n_negotiate, wipe and free
    MaxTime,      \* bound: the last reading of the monotonic clock
    Failures      \* bound: allocations, random numbers and clocks that fail

ASSUME LifeAssumption == MinDelay \in Nat /\ MaxDelay \in Nat

AppIds == {"A", "B"}

VARIABLES
    configs,      \* the configs, "default" among them
    conn,         \* the connection; mem is what it owns
    contexts,     \* the I/O contexts the library has allocated
    sockets,      \* the sockets' TCP_CORK
    corked,       \* what the application had set it to
    now,          \* the monotonic clock
    killed,       \* when s2n_connection_kill last succeeded, 0 if never
    last,         \* the last call, if it is one of Watched, and whether it succeeded
    calls,
    failures

lvars == <<configs, conn, contexts, sockets, corked, now, killed, last, calls, failures>>

AppContext == 99
NoContext == 0

\* What a handshake allocates on the way to the hellos, and after them.
HelloMemory == {"in", "out", "client_hello", "client_ticket", "keyshares", "cookie", "session_secret"}
ExchangeMemory == {"server_public_key", "client_public_key", "dh_params", "kem_params",
                   "client_cert_chain", "ct_response", "status_response", "peer_quic",
                   "server_early_data_context"}

NoValidator == [state |-> "UNINIT", skip |-> FALSE, store |-> NULL, ocsp |-> FALSE, depth |-> 0]

----------------------------------------------------------------------------
(* A call works on the connection, the contexts and the sockets.           *)

World == [conn |-> conn, contexts |-> contexts, sockets |-> sockets, ok |-> TRUE]

Then(w, Op(_)) == IF w.ok THEN Op(w) ELSE w

Fail(w) == [w EXCEPT !.ok = FALSE]

----------------------------------------------------------------------------
(* The config of a connection.                                             *)

s2n_x509_validator_wipe(c) ==
    [c EXCEPT !.x509_validator = [NoValidator EXCEPT !.ocsp = c.x509_validator.ocsp],
              !.mem = @ \ {"x509_validator"}]

s2n_x509_validator_init_no_x509_validation(c) ==
    [c EXCEPT !.x509_validator = [state |-> "INIT", skip |-> TRUE, store |-> NULL, ocsp |-> FALSE,
                                  depth |-> DEFAULT_MAX_CHAIN_DEPTH],
              !.mem = @ \cup {"x509_validator"}]

\* Mutant: the callback of the last config stays.
s2n_x509_validator_init_KeepsHost(c, id) ==
    [c EXCEPT !.x509_validator =
                 [state |-> "INIT", skip |-> FALSE, store |-> id, ocsp |-> configs[id].check_ocsp,
                  depth |-> IF configs[id].max_verify_cert_chain_depth # 0
                            THEN configs[id].max_verify_cert_chain_depth ELSE DEFAULT_MAX_CHAIN_DEPTH],
              !.mem = @ \cup {"x509_validator"},
              !.verify_host_fn = IF c.verify_host_fn_overridden THEN @
                                 ELSE IF configs[id].verify_host # NULL THEN configs[id].verify_host
                                 ELSE IF @ # NULL THEN @ ELSE "s2n_default_verify_host"]

\* With s2n_x509_validator_set_max_chain_depth.
s2n_x509_validator_init(c, id) ==
    [c EXCEPT !.x509_validator =
                 [state |-> "INIT", skip |-> FALSE, store |-> id, ocsp |-> configs[id].check_ocsp,
                  depth |-> IF configs[id].max_verify_cert_chain_depth # 0
                            THEN configs[id].max_verify_cert_chain_depth ELSE DEFAULT_MAX_CHAIN_DEPTH],
              !.mem = @ \cup {"x509_validator"},
              !.verify_host_fn = IF c.verify_host_fn_overridden THEN @
                                 ELSE IF configs[id].verify_host # NULL THEN configs[id].verify_host
                                 ELSE "s2n_default_verify_host"]

s2n_connection_get_client_auth_type(c, config) ==
    IF c.client_cert_auth_type_overridden THEN c.client_cert_auth_type
    ELSE config.client_cert_auth_type

NeedsNoValidation(c, config) ==
    \/ config.disable_x509_validation
    \/ c.mode = "SERVER" /\ s2n_connection_get_client_auth_type(c, config) = "NONE"

s2n_connection_set_psk_type(c, type) ==
    IF c.psks # 0 /\ c.psk_type # type THEN c ELSE [c EXCEPT !.psk_type = type]

\* The members that follow the config, whether or not it is then refused.
TakeSettings(c, id) ==
    [IF c.psks = 0 /\ ~c.psk_mode_overridden
     THEN s2n_connection_set_psk_type(c, configs[id].psk_mode) ELSE c
        EXCEPT !.tickets_to_send = configs[id].initial_tickets_to_send]

TakeValidator(c, id) ==
    IF NeedsNoValidation(c, configs[id]) THEN s2n_x509_validator_init_no_x509_validation(c)
    ELSE s2n_x509_validator_init(c, id)

s2n_connection_set_config(w, id) ==
    IF w.conn.config = id THEN w
    ELSE IF s2n_config_get_num_default_certs(configs[id]) > 1 /\ w.conn.mode = "CLIENT" THEN Fail(w)
    ELSE Then([w EXCEPT !.conn = TakeSettings(TakeValidator(s2n_x509_validator_wipe(@), id), id)],
              LAMBDA v :
                IF configs[id].no_signing_key /\ ~configs[id].async_pkey_cb THEN Fail(v)
                ELSE [v EXCEPT !.conn.config = id,
                               !.conn.quic_enabled = @ \/ configs[id].quic_enabled])

----------------------------------------------------------------------------
(* Descriptors and their I/O contexts.                                     *)

Release(w, id) == [w EXCEPT !.contexts = [i \in DOMAIN @ \ {id} |-> @[i]]]

s2n_connection_free_managed_recv_io(w) ==
    IF ~w.conn.managed_recv_io THEN w
    ELSE [Release(w, w.conn.recv_io_context)
            EXCEPT !.conn.recv_io_context = NoContext, !.conn.managed_recv_io = FALSE, !.conn.recv = NULL]

s2n_connection_free_managed_send_io(w) ==
    IF ~w.conn.managed_send_io THEN w
    ELSE [Release(w, w.conn.send_io_context)
            EXCEPT !.conn.send_io_context = NoContext, !.conn.managed_send_io = FALSE, !.conn.send = NULL]

s2n_connection_free_managed_io(w) ==
    Then(s2n_connection_free_managed_recv_io(w), s2n_connection_free_managed_send_io)

s2n_connection_set_recv_ctx(w, ctx) ==
    [s2n_connection_free_managed_recv_io(w) EXCEPT !.conn.recv_io_context = ctx]
s2n_connection_set_recv_cb(w, fn) ==
    [s2n_connection_free_managed_recv_io(w) EXCEPT !.conn.recv = fn]
s2n_connection_set_send_ctx(w, ctx) ==
    [s2n_connection_free_managed_send_io(w) EXCEPT !.conn.send_io_context = ctx]
s2n_connection_set_send_cb(w, fn) ==
    [s2n_connection_free_managed_send_io(w) EXCEPT !.conn.send = fn]

NextContext(w) == CHOOSE i \in 1..4 : i \notin DOMAIN w.contexts /\ \A j \in 1..(i - 1) : j \in DOMAIN w.contexts

Allocate(w, id, ctx) == [w EXCEPT !.contexts = [i \in DOMAIN @ \cup {id} |-> IF i = id THEN ctx ELSE @[i]]]

\* s2n_socket_read_snapshot and s2n_socket_write_snapshot fill the context.
s2n_connection_set_read_fd(w, fd) ==
    LET id == NextContext(w)
    IN  [s2n_connection_set_recv_ctx(
            s2n_connection_set_recv_cb(
                Allocate(w, id, [fd |-> fd, original |-> FALSE, is_set |-> TRUE]), "s2n_socket_read"), id)
            EXCEPT !.conn.managed_recv_io = TRUE]

s2n_connection_set_write_fd(w, fd) ==
    LET id == NextContext(w)
    IN  [s2n_connection_set_send_ctx(
            s2n_connection_set_send_cb(
                Allocate(w, id, [fd |-> fd, original |-> w.sockets[fd], is_set |-> TRUE]), "s2n_socket_write"), id)
            EXCEPT !.conn.managed_send_io = TRUE, !.conn.write_fd_broken = FALSE]

s2n_connection_use_corked_io(w) ==
    IF ~w.conn.managed_send_io THEN Fail(w) ELSE [w EXCEPT !.conn.corked_io = TRUE]

s2n_connection_is_managed_corked(c) == c.managed_send_io /\ c.corked_io

s2n_socket_was_corked(w) == w.conn.managed_send_io /\ w.contexts[w.conn.send_io_context].original

\* s2n_socket_write_cork and s2n_socket_write_uncork.
WriteCork(w, on) == [w EXCEPT !.sockets[w.contexts[w.conn.send_io_context].fd] = on]

\* What s2n_advance_message does to the socket when the writer changes.
s2n_advance_message(w, writing) ==
    IF ~w.conn.corked_io \/ s2n_socket_was_corked(w) \/ ~s2n_connection_is_managed_corked(w.conn) THEN w
    ELSE WriteCork(w, writing)

\* The application's context is read as if it were the library's: without one
\* there is an error, with one nothing can be said (only the first is modelled).
s2n_socket_read_restore(w) ==
    IF w.conn.recv_io_context = NoContext THEN Fail(w)
    ELSE IF w.conn.recv_io_context = AppContext THEN w
    ELSE [w EXCEPT !.contexts[w.conn.recv_io_context].is_set = FALSE]

s2n_socket_write_restore(w) ==
    IF ~w.contexts[w.conn.send_io_context].is_set THEN w
    ELSE [WriteCork(w, w.contexts[w.conn.send_io_context].original)
            EXCEPT !.contexts[w.conn.send_io_context].is_set = FALSE]

s2n_connection_wipe_io(w) ==
    IF ~s2n_connection_is_managed_corked(w.conn) THEN s2n_connection_free_managed_io(w)
    ELSE Then(Then(IF w.conn.recv # NULL THEN s2n_socket_read_restore(w) ELSE w,
                   LAMBDA v : IF v.conn.send # NULL THEN s2n_socket_write_restore(v) ELSE v),
              s2n_connection_free_managed_io)

----------------------------------------------------------------------------
(* New, wiped and freed connections.                                       *)

\* Zero bytes, and s2n_connection_zero's own assignments.
Zeroed(mode) ==
    [alive |-> TRUE, mode |-> mode, config |-> NULL, x509_validator |-> NoValidator,
     client_cert_auth_type |-> "NONE", client_cert_auth_type_overridden |-> FALSE,
     verify_host_fn |-> NULL, verify_host_fn_overridden |-> FALSE,
     psk_type |-> "RESUMPTION", psk_mode_overridden |-> FALSE, psks |-> 0,
     quic_enabled |-> FALSE, tickets_to_send |-> 0,
     recv |-> NULL, recv_io_context |-> NoContext, managed_recv_io |-> FALSE,
     send |-> NULL, send_io_context |-> NoContext, managed_send_io |-> FALSE,
     corked_io |-> FALSE, write_fd_broken |-> FALSE,
     handshake |-> "IDLE", closed |-> FALSE, delay |-> 0, write_timer |-> 0, blinding |-> "NONE",
     server_name |-> <<>>, context |-> NULL, unread |-> FALSE, mem |-> {}]

\* s2n_connection_wipe_keys frees what it names, and the validator.
WipedKeys == {"server_public_key", "client_public_key", "dh_params", "keyshares", "kem_params",
              "client_cert_chain", "ct_response"}

\* The members that s2n_connection_wipe keeps allocated.
Kept == {"keys", "hmacs", "prf_space", "hashes", "handshake_io"}

\* What wipe frees by itself, the buffers `in' and `out' resized to nothing too.
WipeFrees == {"psk_params", "client_ticket", "status_response", "application_protocols_overridden",
              "our_quic", "peer_quic", "server_early_data_context", "session_secret", "cookie",
              "client_hello", "in", "out"}

Free(w, names) == [w EXCEPT !.conn.mem = @ \ names]

\* A step that allocates `name' unless it is there: it fails if it is the one
\* that has been chosen to.
Ensure(w, name, fault) ==
    IF name \in w.conn.mem THEN w
    ELSE IF fault = name THEN Fail(w) ELSE [w EXCEPT !.conn.mem = @ \cup {name}]

s2n_connection_wipe_keys(w) ==
    [Free(w, WipedKeys) EXCEPT !.conn = s2n_x509_validator_wipe(@)]

\* s2n_connection_zero: the structure is zeroed but for what has been saved, and
\* the config given again; that this fails is not noticed.
s2n_connection_zero(w, mode, config) ==
    [s2n_connection_set_config([w EXCEPT !.conn = [Zeroed(mode) EXCEPT !.mem = w.conn.mem]], config)
        EXCEPT !.ok = TRUE]

\* Mutant: a delay of the last connection is not forgotten.
FinishWipe_KeepsDelay(w, old) ==
    [s2n_connection_zero(w, old.mode, old.config)
        EXCEPT !.conn.psk_type = "RESUMPTION", !.conn.blinding = "BUILT_IN", !.conn.delay = old.delay,
               !.conn.write_timer = old.write_timer]

\* The end of s2n_connection_wipe; s2n_psk_parameters_init clears the type that
\* the config had just given.
FinishWipe(w, old) ==
    [s2n_connection_zero(w, old.mode, old.config)
        EXCEPT !.conn.psk_type = "RESUMPTION", !.conn.blinding = "BUILT_IN"]

\* fault: which allocation fails, if any.
s2n_connection_wipe(w, fault) ==
    Then(Then(Then(Then(Then(Ensure(w, "hashes", fault),
        LAMBDA v : Ensure(v, "prf_space", fault)),
        LAMBDA v : s2n_connection_wipe_io([Free(s2n_connection_wipe_keys(v), {"psk_params"})
                                             EXCEPT !.conn.psks = 0, !.conn.unread = FALSE])),
        LAMBDA v : Ensure(Free(v, WipeFrees \ {"in", "out", "client_hello"}), "handshake_io", fault)),
        LAMBDA v : Free(v, WipeFrees)),
        LAMBDA v : FinishWipe(v, w.conn))

\* The connection is a server's until `mode' is assigned.  A failure leaks what
\* has been allocated and is left out.
s2n_connection_new(w, mode) ==
    Then(s2n_connection_set_config([w EXCEPT !.conn = [Zeroed("SERVER") EXCEPT
                                                         !.mem = {"keys", "hmacs", "prf_space", "hashes"}]],
                                   "default"),
         LAMBDA v : s2n_connection_wipe([v EXCEPT !.conn.mode = mode], NULL))

Freed == [Zeroed("SERVER") EXCEPT !.alive = FALSE]

\* Mutant: one of the members is forgotten.
FreedMembers_NoCookie ==
    {"keys", "psk_params", "prf_space", "hashes", "hmacs", "client_ticket", "status_response",
     "our_quic", "peer_quic", "server_early_data_context", "session_secret", "in", "out",
     "handshake_io", "x509_validator", "client_hello", "application_protocols_overridden"}

FreedMembers ==
    {"keys", "psk_params", "prf_space", "hashes", "hmacs", "client_ticket", "status_response",
     "our_quic", "peer_quic", "server_early_data_context", "session_secret", "in", "out",
     "handshake_io", "x509_validator", "client_hello", "application_protocols_overridden", "cookie"}

\* The sockets are not given back as they were.
s2n_connection_free(w) ==
    Then(s2n_connection_free_managed_io(Free(s2n_connection_wipe_keys(w), FreedMembers)),
         LAMBDA v : [v EXCEPT !.conn = [Freed EXCEPT !.mem = v.conn.mem]])

\* Half of it may have been done when it fails.
s2n_connection_release_buffers(w) ==
    IF w.conn.unread THEN Fail(Free(w, {"out"})) ELSE Free(w, {"in", "out"})

s2n_connection_free_handshake(w) ==
    Free(w, {"hashes", "prf_space", "handshake_io", "client_hello", "client_ticket", "status_response",
             "our_quic", "application_protocols_overridden", "cookie"})

----------------------------------------------------------------------------
(* Blinding.                                                               *)

\* Mutant: the timer runs on from the last time.
s2n_connection_kill_NoTimer(c, delay, fault) ==
    [c EXCEPT !.closed = TRUE, !.delay = IF fault = "random" THEN @ ELSE delay]

\* fault: what fails, if anything.  Without a random number the connection is
\* closed and keeps the delay it had, none as a rule; without a clock the new
\* delay is counted from the old write_timer.  Nobody looks at the error.
s2n_connection_kill(c, delay, fault) ==
    [c EXCEPT !.closed = TRUE,
              !.delay = IF fault = "random" THEN @ ELSE delay,
              !.write_timer = IF fault = NULL THEN now ELSE @]

\* s2n_connection_apply_error_blinding.
IsKilling(error) == error \notin {"OK", "BLOCKED", "CANCELLED"}

s2n_connection_get_delay(c) ==
    IF c.delay = 0 \/ now - c.write_timer > c.delay THEN 0 ELSE c.delay - (now - c.write_timer)

----------------------------------------------------------------------------
(* The calls.                                                              *)

\* The calls that the properties speak of.
Watched == {"set_config", "shutdown", "wipe"}
Other == [op |-> "other", ok |-> TRUE]

Did(op, w) ==
    /\ conn' = w.conn
    /\ contexts' = w.contexts
    /\ sockets' = w.sockets
    /\ last' = IF op \in Watched THEN [op |-> op, ok |-> w.ok] ELSE Other

Timeless == UNCHANGED <<configs, corked, now, killed>>

\* A connection that refused its config, or that could not be wiped, is good
\* only for being wiped or freed.
Usable == conn.alive /\ (last.ok \/ last.op \notin {"set_config", "wipe"})

\* A call of the application that cannot fail for want of memory.
Call(op, w) ==
    /\ Usable
    /\ calls < MaxCalls
    /\ calls' = calls + 1
    /\ Did(op, w)
    /\ UNCHANGED failures
    /\ Timeless

Set(c) == [World EXCEPT !.conn = c]

\* One whose allocation fails leaves everything as it was.
Allocating(op, w) ==
    \/ Call(op, w)
    \/ /\ Usable
       /\ calls < MaxCalls
       /\ failures < Failures
       /\ calls' = calls + 1
       /\ failures' = failures + 1
       /\ last' = Other
       /\ UNCHANGED <<conn, contexts, sockets>>
       /\ Timeless

New == /\ ~conn.alive
       /\ conn.mem = {}
       /\ calls < MaxCalls
       /\ calls' = calls + 1
       /\ \E mode \in {"CLIENT", "SERVER"} : Did("new", s2n_connection_new(World, mode))
       /\ killed' = 0
       /\ corked' = sockets
       /\ UNCHANGED <<configs, now, failures>>

SetConfig == \E id \in AppIds :
    \E w \in {s2n_connection_set_config(World, id)} : Call("set_config", w)

\* Client authentication is settled before the config, unless LateAuth.
SetClientAuthType == \E type \in {"NONE", "OPTIONAL", "REQUIRED"} :
    /\ LateAuth \/ conn.config = "default"
    /\ Call("set_client_auth_type",
            Set([conn EXCEPT !.client_cert_auth_type = type, !.client_cert_auth_type_overridden = TRUE]))

SetVerifyHost ==
    Call("set_verify_host", Set([conn EXCEPT !.verify_host_fn = "app", !.verify_host_fn_overridden = TRUE]))

SetPskMode == \E mode \in {"RESUMPTION", "EXTERNAL"} :
    Call("set_psk_mode",
         IF conn.psks # 0 /\ conn.psk_type # mode THEN Fail(World)
         ELSE Set([s2n_connection_set_psk_type(conn, mode) EXCEPT !.psk_mode_overridden = TRUE]))

AppendPsk ==
    Allocating("append_psk",
               IF conn.psks # 0 /\ conn.psk_type # "EXTERNAL" THEN Fail(World)
               ELSE Set([conn EXCEPT !.psk_type = "EXTERNAL", !.psks = 1, !.mem = @ \cup {"psk_params"}]))

\* s2n_connection_set_fd is the one and then the other.  Sockets and callbacks
\* are not changed in the middle of a handshake.
SetFd == \E fd \in Fds :
    /\ conn.handshake \in {"IDLE", "DONE"}
    /\ \/ Allocating("set_read_fd", s2n_connection_set_read_fd(World, fd))
       \/ Allocating("set_write_fd", s2n_connection_set_write_fd(World, fd))

\* The application's own I/O: the callback and its context.
SetCallbacks ==
    /\ conn.handshake \in {"IDLE", "DONE"}
    /\ \/ Call("set_recv_cb", s2n_connection_set_recv_cb(World, "app"))
       \/ Call("set_recv_ctx", s2n_connection_set_recv_ctx(World, AppContext))
       \/ Call("set_send_cb", s2n_connection_set_send_cb(World, "app"))
       \/ Call("set_send_ctx", s2n_connection_set_send_ctx(World, AppContext))

UseCorkedIo == Call("use_corked_io", s2n_connection_use_corked_io(World))

\* A name is copied over the last one, without an end.
SetServerName == \E name \in {<<"a">>, <<"b", "c">>} :
    Call("set_server_name",
         IF conn.mode # "CLIENT" THEN Fail(World)
         ELSE Set([conn EXCEPT !.server_name = name \o SubSeq(@, Len(name) + 1, Len(@))]))

SetOther ==
    \/ Call("set_ctx", Set([conn EXCEPT !.context = "app"]))
    \/ Call("set_blinding", Set([conn EXCEPT !.blinding = "SELF_SERVICE"]))
    \/ Allocating("set_protocols", Set([conn EXCEPT !.mem = @ \cup {"application_protocols_overridden"}]))
    \/ Allocating("set_quic_parameters", Set([conn EXCEPT !.mem = @ \cup {"our_quic"}]))

\* Messages are read and written; `unread' is what s2n_recv has left in `in'.
Handshake ==
    /\ Usable /\ conn.recv # NULL /\ conn.send # NULL /\ ~conn.closed
    /\ {"hashes", "prf_space", "handshake_io"} \subseteq conn.mem
    /\ \E to \in IF conn.handshake = "IDLE" THEN {"WRITING", "READING"}
                 ELSE IF conn.handshake = "WRITING" THEN {"READING", "DONE"}
                 ELSE IF conn.handshake = "READING" THEN {"WRITING", "DONE"} ELSE {} :
        Did("negotiate",
             [s2n_advance_message(World, to = "WRITING")
                EXCEPT !.conn.handshake = to,
                       !.conn.mem = (@ \cup HelloMemory \cup IF conn.handshake = "IDLE" THEN {} ELSE ExchangeMemory)
                                    \ IF to = "DONE" THEN {"handshake_io"} ELSE {}])
    /\ UNCHANGED <<calls, failures>>
    /\ Timeless

Receive ==
    /\ conn.handshake = "DONE" /\ ~conn.closed
    /\ Call("recv", Set([conn EXCEPT !.unread = ~@, !.mem = @ \cup {"in", "out"}]))

\* The peer has gone: the descriptor is not written to again.
BreakPipe ==
    /\ conn.send # NULL /\ conn.handshake # "IDLE" /\ ~conn.write_fd_broken
    /\ Call("send", Fail(Set([conn EXCEPT !.write_fd_broken = TRUE])))

ReleaseBuffers == Call("release_buffers", s2n_connection_release_buffers(World))
FreeHandshake == conn.handshake = "DONE" /\ Call("free_handshake", s2n_connection_free_handshake(World))

\* An error of s2n_negotiate or s2n_recv.  With built-in blinding the call
\* sleeps before it returns, unless the kill has failed.
Error == \E error \in {"BLOCKED", "CANCELLED", "OTHER"}, delay \in MinDelay..MaxDelay,
            fault \in {NULL, "random", "clock"} :
    /\ Usable /\ conn.recv # NULL /\ conn.send # NULL
    /\ calls < MaxCalls
    /\ calls' = calls + 1
    /\ ~IsKilling(error) => delay = MinDelay /\ fault = NULL
    /\ fault # NULL => failures < Failures
    /\ failures' = failures + (IF fault # NULL THEN 1 ELSE 0)
    /\ conn' = IF IsKilling(error) THEN s2n_connection_kill(conn, delay, fault)
               ELSE [conn EXCEPT !.closed = @ \/ error = "CANCELLED"]
    /\ killed' = IF IsKilling(error) /\ fault = NULL THEN now ELSE killed
    /\ now' = IF IsKilling(error) /\ fault = NULL /\ conn.blinding = "BUILT_IN" THEN now + delay ELSE now
    /\ now' <= MaxTime
    /\ last' = Other
    /\ UNCHANGED <<configs, contexts, sockets, corked>>

\* It fails before the delay has passed, and when the clock does.
Shutdown ==
    \/ Call("shutdown",
            IF conn.send = NULL /\ conn.recv = NULL THEN World
            ELSE IF now - conn.write_timer < conn.delay THEN Fail(World)
            ELSE Set([conn EXCEPT !.unread = FALSE]))
    \/ (conn.send # NULL \/ conn.recv # NULL) /\ Call("shutdown", Fail(World))

\* Time passes until no delay would last any longer.
Tick == /\ now < MaxTime
        /\ conn.delay # 0 /\ now - conn.write_timer < MaxDelay
        /\ now' = now + 1
        /\ UNCHANGED <<configs, last, conn, contexts, sockets, corked, killed, calls, failures>>

Wipe == \E fault \in {NULL, "hashes", "prf_space", "handshake_io"} :
    /\ conn.alive
    /\ last.op # "wipe" \/ ~last.ok
    /\ fault # NULL => failures < Failures /\ fault \notin conn.mem
    /\ failures' = failures + (IF fault # NULL THEN 1 ELSE 0)
    /\ \E w \in {s2n_connection_wipe(World, fault)} :
        /\ Did("wipe", w)
        /\ killed' = IF w.ok THEN 0 ELSE killed
    /\ UNCHANGED <<configs, corked, now, calls>>

Destroy ==
    /\ conn.alive
    /\ Did("free", s2n_connection_free(World))
    /\ UNCHANGED <<calls, failures>>
    /\ Timeless

NoWorld(s) == [conn |-> Freed, contexts |-> <<>>, sockets |-> s, ok |-> TRUE]

\* A connection is still to be made, or has been made and given a socket.
LifeInit ==
    /\ configs \in {[id \in AppIds \cup {"default"} |-> IF id = "default" THEN s2n_config_init ELSE f[id]] :
                      f \in AppConfigs}
    /\ corked \in [Fds -> BOOLEAN]
    /\ sockets = corked
    /\ \E w \in {NoWorld(corked)} \cup
                {s2n_connection_set_write_fd(s2n_connection_set_read_fd(
                    s2n_connection_new(NoWorld(corked), mode), fd), fd) : mode \in {"CLIENT", "SERVER"}, fd \in Fds} :
        /\ conn = w.conn
        /\ contexts = w.contexts
    /\ now = 1
    /\ killed = 0
    /\ last = Other
    /\ calls = 0
    /\ failures = 0

LifeNext ==
    \/ New \/ SetConfig \/ SetClientAuthType \/ SetVerifyHost \/ SetPskMode \/ AppendPsk
    \/ SetFd \/ SetCallbacks \/ UseCorkedIo \/ SetServerName \/ SetOther
    \/ Handshake \/ Receive \/ BreakPipe \/ ReleaseBuffers \/ FreeHandshake
    \/ Error \/ Shutdown \/ Tick \/ Wipe \/ Destroy

LifeSpec == LifeInit /\ [][LifeNext]_lvars

----------------------------------------------------------------------------

Wiped == last.op = "wipe" /\ last.ok

Fresh(mode, config) ==
    s2n_connection_set_config(s2n_connection_new([World EXCEPT !.contexts = <<>>], mode), config).conn

\* A host callback that no validator calls makes no difference.
Effective(c) == IF c.x509_validator.skip THEN [c EXCEPT !.verify_host_fn = NULL] ELSE c

(***************************************************************************)
(* A connection that has been wiped, at any moment and after a wipe that   *)
(* failed half-way too, is one that has just been made and given the same  *)
(* config: nothing of its last use steers the next one, and nothing it     *)
(* owned is left (s2n_connection_wipe).                                    *)
(***************************************************************************)
WipedLikeNew == Wiped => Effective(conn) = Effective(Fresh(conn.mode, conn.config))

(***************************************************************************)
(* Memory has one owner.  The I/O contexts that are allocated are those    *)
(* the connection manages, none is left behind when descriptors and        *)
(* callbacks replace each other and none is used that has been freed; when *)
(* the connection is freed nothing remains.                                *)
(***************************************************************************)
MemoryOwned ==
    /\ DOMAIN contexts = (IF conn.managed_recv_io THEN {conn.recv_io_context} ELSE {})
                         \cup (IF conn.managed_send_io THEN {conn.send_io_context} ELSE {})
    /\ ~conn.alive => conn.mem = {}

(***************************************************************************)
(* Corked I/O is the library's business while it lasts: once the handshake *)
(* is over, and once the connection is wiped in the middle of it, the      *)
(* socket is corked only if the application had corked it, as long as one  *)
(* socket was used for writing (s2n_socket_write_snapshot and _restore).   *)
(***************************************************************************)
SocketsRestored ==
    Wiped \/ conn.handshake = "DONE" => Cardinality({fd \in Fds : sockets[fd] # corked[fd]}) = 0

(***************************************************************************)
(* Once an error has killed the connection, it is not shut down before the *)
(* shortest delay has passed, whatever is called and whatever fails in     *)
(* between, a later kill that gets no random number or no clock included.  *)
(* Only a kill that succeeded counts: one that fails enforces nothing by   *)
(* itself (s2n_connection_kill, s2n_shutdown).                             *)
(***************************************************************************)
DelayEnforced ==
    last = [op |-> "shutdown", ok |-> TRUE] /\ killed # 0 /\ (conn.send # NULL \/ conn.recv # NULL)
        => now - killed >= MinDelay

(***************************************************************************)
(* A connection checks its peer the way its config and its own client auth *)
(* type say: the validator is the one they call for, with the config's     *)
(* trust store, depth and stapling, and the host is verified by the        *)
(* connection's callback, else the config's, else the default one, however *)
(* often the config is replaced (s2n_connection_set_config).               *)
(***************************************************************************)
PeerChecked ==
    Usable /\ conn.config \in AppIds =>
        \E config \in {configs[conn.config]}, v \in {conn.x509_validator} :
            /\ v.skip = NeedsNoValidation(conn, config)
            /\ ~v.skip =>
                /\ v.store = conn.config
                /\ v.ocsp = config.check_ocsp
                /\ v.depth = IF config.max_verify_cert_chain_depth = 0 THEN DEFAULT_MAX_CHAIN_DEPTH
                             ELSE config.max_verify_cert_chain_depth
                /\ conn.verify_host_fn = IF conn.verify_host_fn_overridden THEN "app"
                                         ELSE IF config.verify_host # NULL THEN config.verify_host
                                         ELSE "s2n_default_verify_host"
=============================================================================
