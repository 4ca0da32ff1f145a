------------------------------ MODULE Backends ------------------------------
(***************************************************************************)
(* Dynamic backends (fsthttp/backend.go): a BackendOptions built by calls  *)
(* in any order, its registration under a name, and what a Backend then    *)
(* says of itself, while another goroutine registers or asks for the same  *)
(* name.                                                                   *)
(***************************************************************************)
EXTENDS Integers, Sequences, FiniteSets

CONSTANTS U32,         \* 2^32
          Ms, Second,  \* a millisecond and a second, in the unit of a Duration
          Durations,   \* bound: the durations a program sets
          Counts,      \* bound: the counts of probes it sets
          Text, Blank, \* a string that is not empty, and the empty one
          Unset,       \* never set, or nothing there
          MaxCalls     \* bound: calls of the builder

ASSUME UnitAssumption == U32 \in Nat /\ U32 > 2 /\ Ms \in Nat \ {0} /\ Second \in Nat /\ Second > Ms
ASSUME DurationAssumption == Durations \subseteq Int /\ Counts \subseteq 0 .. U32 - 1 /\ MaxCalls \in Nat

Timeouts == {"connect_timeout", "first_byte_timeout", "between_bytes_timeout", "http_keepalive_time"}
Versions == {"ssl_min_version", "ssl_max_version"}
Strings == {"cert_hostname", "ca_cert", "ciphers", "sni_hostname", "client_cert"}
KeepaliveTimes == {"tcp_keepalive_interval", "tcp_keepalive_time"}
Valued == Timeouts \cup Versions \cup Strings \cup KeepaliveTimes \cup {"host_override", "tcp_keepalive_probes"}
Switches == {"use_ssl", "pool", "grpc", "tcp_keepalive_enable"}

\* The options that come with the keepalive flag, all of them at once.
Keepalive == KeepaliveTimes \cup {"http_keepalive_time", "tcp_keepalive_probes", "tcp_keepalive_enable"}
Flag(o) == IF o \in Keepalive THEN "keepalive" ELSE o

VARIABLES mask,    \* the flags of the configuration
          opts,    \* its fields
          errs,    \* the calls it has refused
          said,    \* ghost: what the program last set each option to
          calls,   \* ghost: its calls so far
          host,    \* what the host has registered under the name, and for whom
          backend  \* the Backend of each goroutine: what it says of its options

backendsVars == <<mask, opts, errs, said, calls, host, backend>>
builderVars == <<mask, opts, errs, said, calls>>

Goroutines == {"builder", "other"}
Owners == Goroutines \cup {"service"}
Zeros == [o \in Valued \cup {"tcp_keepalive_enable"} |-> 0]

\* A registration: the flags, the fields, and the target, each owner's its own.
Configs == [mask : SUBSET (Valued \cup Switches \cup {"keepalive"}),
            opts : [Valued \cup {"tcp_keepalive_enable"} -> (0 .. U32 - 1) \cup {Text}],
            target : Owners]

ASSUME TextAssumption == Text # Blank /\ Blank \notin Int
ASSUME UnsetAssumption ==
  Unset \notin Int \cup BOOLEAN \cup {Text, Blank} \cup [by : Owners, config : Configs]

\* The service may have a backend of the name, which is none of the program's.
Static == [by |-> "service", config |-> [mask |-> {}, opts |-> Zeros, target |-> "service"]]

BackendsInit ==
  /\ mask = {} /\ opts = Zeros /\ errs = {}
  /\ said = [o \in Valued \cup Switches |-> Unset]
  /\ calls = 0 /\ host \in {Unset, Static}
  /\ backend = [g \in Goroutines |-> Unset]
-----------------------------------------------------------------------------
(***************************************************************************)
(* The builder.                                                            *)
(***************************************************************************)
maxBackendTimeout == U32 * Ms

\* A call of the builder comes before the registration (bound: of the name).
Called == calls < MaxCalls /\ host = Unset /\ calls' = calls + 1 /\ UNCHANGED <<host, backend>>

Call(o, v) ==
  /\ Called
  /\ said' = [said EXCEPT ![o] = v,
                          !["use_ssl"] = IF o \in Versions \cup Strings /\ v # Blank THEN TRUE
                                         ELSE IF o = "use_ssl" THEN v ELSE @,
                          !["tcp_keepalive_enable"] =
                             IF o \in KeepaliveTimes \cup {"tcp_keepalive_probes"} THEN TRUE
                             ELSE IF o = "tcp_keepalive_enable" THEN v ELSE @]

Refuse(o) == errs' = errs \cup {o} /\ UNCHANGED <<mask, opts>>

Take(o, v) ==
  /\ mask' = mask \cup {Flag(o)}
  /\ opts' = [opts EXCEPT ![o] = v]
  /\ UNCHANGED errs

\* Duration.Milliseconds: towards zero.
Milliseconds(t) == IF t >= 0 THEN t \div Ms ELSE -((-t) \div Ms)

TooLarge(t) == t > maxBackendTimeout

\* ConnectTimeout, FirstByteTimeout, BetweenBytesTimeout, HTTPKeepaliveTime:
\* whole milliseconds, in 32 bits.
SetTimeout ==
  \E o \in Timeouts, t \in Durations :
    /\ Call(o, t)
    /\ IF TooLarge(t) THEN Refuse(o) ELSE Take(o, Milliseconds(t) % U32)

HostOverride == Call("host_override", Text) /\ Take("host_override", Text)

\* Mutant: TLS is left as it is.
LeavesTLS(o, v) == Take(o, v)

\* Every option of TLS turns TLS on.
TakeTLS(o, v) ==
  /\ mask' = mask \cup {o, "use_ssl"}
  /\ opts' = [opts EXCEPT ![o] = v]
  /\ UNCHANGED errs

SetVersion == \E o \in Versions, v \in {1, 2} : Call(o, v) /\ TakeTLS(o, v)

\* CertHostname, CACert, Ciphers, SNIHostname, ClientCertificate.
SetString ==
  \E o \in Strings, v \in {Text, Blank} :
    /\ Call(o, v)
    /\ IF v = Blank THEN Refuse(o) ELSE TakeTLS(o, v)

\* UseSSL and UseGRPC; PoolConnections' flag says not to.
Switch ==
  \E o \in {"use_ssl", "pool", "grpc"}, v \in BOOLEAN :
    /\ Call(o, v)
    /\ mask' = IF v = (o # "pool") THEN mask \cup {o} ELSE mask \ {o}
    /\ UNCHANGED <<opts, errs>>

TCPKeepaliveEnable ==
  \E v \in BOOLEAN :
    /\ Call("tcp_keepalive_enable", v)
    /\ Take("tcp_keepalive_enable", IF v THEN 1 ELSE 0)

\* A time or a count of probes turns TCP keepalives on.
TakeKeepalive(o, v) ==
  /\ mask' = mask \cup {"keepalive"}
  /\ opts' = [opts EXCEPT ![o] = v, !["tcp_keepalive_enable"] = 1]
  /\ UNCHANGED errs

\* At least a second, and not checked for being too large: what more seconds
\* than a word holds become is left to the compiler (bound: no such time).
TCPKeepaliveInterval ==
  \E t \in Durations :
    /\ t \div Second < U32
    /\ Call("tcp_keepalive_interval", t)
    /\ TakeKeepalive("tcp_keepalive_interval", (IF t < Second THEN Second ELSE t) \div Second)

\* What a negative time becomes in 32 bits is left to the compiler (bound: no
\* such time).
TCPKeepaliveTime ==
  \E t \in Durations :
    /\ t >= 0
    /\ Call("tcp_keepalive_time", t)
    /\ IF TooLarge(t) THEN Refuse("tcp_keepalive_time")
       ELSE TakeKeepalive("tcp_keepalive_time", t \div Second)

\* No probes: nothing is set, and what was set before stays.
TCPKeepaliveProbes ==
  \E n \in Counts :
    \/ n > 0 /\ Call("tcp_keepalive_probes", n) /\ TakeKeepalive("tcp_keepalive_probes", n)
    \/ n = 0 /\ Called /\ UNCHANGED <<mask, opts, errs, said>>
-----------------------------------------------------------------------------
(***************************************************************************)
(* The registration, and the Backend.                                      *)
(***************************************************************************)
Timing == {"connect_timeout", "first_byte_timeout", "between_bytes_timeout"}
Fields == Timing \cup Versions \cup {"host_override", "use_ssl", "dynamic", "target"}

\* What the host answers for a field of the configuration it has.
Given(c, f) == IF f \in c.mask THEN c.opts[f] ELSE 0

BackendIsDynamic(c) == c.target # "service"
BackendGetTarget(c) == c.target
BackendIsSSL(c) == "use_ssl" \in c.mask
BackendGetOverrideHost(c) == Given(c, "host_override")
BackendGetTimeout(c, f) == Given(c, f)
BackendGetSSLVersion(c, f) == Given(c, f)

HostSays(c, f) == CASE f \in Timing -> BackendGetTimeout(c, f)
                    [] f \in Versions -> BackendGetSSLVersion(c, f)
                    [] f = "host_override" -> BackendGetOverrideHost(c)
                    [] f = "use_ssl" -> BackendIsSSL(c)
                    [] f = "dynamic" -> BackendIsDynamic(c)
                    [] f = "target" -> BackendGetTarget(c)

\* Mutant: the minimum is asked for twice.
PopulateMinTwice(c, quiet) ==
  [f \in Fields |-> IF f \in quiet \/ (f \in Versions /\ "use_ssl" \notin c.mask) THEN Unset
                    ELSE HostSays(c, IF f = "ssl_max_version" THEN "ssl_min_version" ELSE f)]

\* populateConfig: a field the host is quiet about is zero, and versions are
\* only asked for with TLS.  The target is the host's (GetHost, GetPort), also
\* after a registration, and ":0" where the host has none.
populateConfig(c, quiet) ==
  [f \in Fields |-> IF f \in quiet \/ (f \in Versions /\ ("use_ssl" \in quiet \/ "use_ssl" \notin c.mask))
                    THEN Unset ELSE HostSays(c, f)]

\* The host says everything, does not support times and versions, or has
\* nothing to say (bound: of TLS and its address, or at all).
Quiet == {{}, Timing \cup Versions, {"use_ssl", "target"}, Fields}

\* The caller gets an error and no Backend.
RegistrationFails(g) == backend' = [backend EXCEPT ![g] = Unset]

\* What follows once the name is the host's: a getter may still fail.
Populates(g, c) ==
  \/ \E q \in Quiet : backend' = [backend EXCEPT ![g] = populateConfig(c, q)]
  \/ RegistrationFails(g)

\* Mutant: the refused calls are not asked for.
RefusalIgnored == FALSE

Refused == errs # {}

Config(g) == IF g = "builder" THEN [mask |-> mask, opts |-> opts, target |-> g]
             ELSE [mask |-> {}, opts |-> Zeros, target |-> g]

\* Refused calls, a name in use (ErrBackendNameInUse) or the host's refusal
\* (ErrDynamicBackendDisallowed, ErrUnexpected) register nothing; a getter that
\* fails leaves the name registered.  The other goroutine has no options.
RegisterDynamicBackend(g) ==
  /\ UNCHANGED builderVars
  /\ \/ /\ ~(g = "builder" /\ Refused)
        /\ host = Unset
        /\ host' = [by |-> g, config |-> Config(g)]
        /\ Populates(g, Config(g))
     \/ RegistrationFails(g) /\ UNCHANGED host

BackendFromName(g) ==
  /\ UNCHANGED <<builderVars, host>>
  /\ \/ host # Unset /\ Populates(g, host.config)
     \/ RegistrationFails(g)

BackendsNext ==
  \/ SetTimeout \/ HostOverride \/ SetVersion \/ SetString \/ Switch
  \/ TCPKeepaliveEnable \/ TCPKeepaliveInterval \/ TCPKeepaliveTime \/ TCPKeepaliveProbes
  \/ \E g \in Goroutines : RegisterDynamicBackend(g) \/ BackendFromName(g)

BackendsSpec == BackendsInit /\ [][BackendsNext]_backendsVars
-----------------------------------------------------------------------------
BackendsTypeOK ==
  /\ [mask |-> mask, opts |-> opts, target |-> "builder"] \in Configs
  /\ host \in [by : Owners, config : Configs] \cup {Unset}

\* A time the check is right about: it lets negative ones pass, which wrap, and
\* the largest, 2^32 ms, which is sent as zero.
Meant(t) == t >= 0 /\ t # maxBackendTimeout

Wanted(o) ==
  CASE o \in Timeouts -> said[o] \div Ms
    [] o = "tcp_keepalive_time" -> said[o] \div Second
    [] o = "tcp_keepalive_interval" -> (IF said[o] < Second THEN Second ELSE said[o]) \div Second
    [] OTHER -> said[o]

\* What the builder has registered is what its calls have said, in whatever
\* order they came: every option with a value has the one it was last given, in
\* the host's unit, one that was never given any is zero and, unless it shares
\* the flag of the keepalives, has no flag, and a call that was refused leaves
\* no backend behind.  Excepted are the times the check of BackendOptions is
\* wrong about; a count of no probes is not taken for a value, so what was set
\* before is what is registered (BackendOptions, RegisterDynamicBackend).
RegisteredAsSaid ==
  host # Unset /\ host.by = "builder" =>
    \A o \in Valued :
      /\ said[o] # Unset /\ (o \in Timeouts => Meant(said[o])) =>
           Flag(o) \in host.config.mask /\ host.config.opts[o] = Wanted(o)
      /\ said[o] = Unset =>
           host.config.opts[o] = 0 /\ (o \notin Keepalive => o \notin host.config.mask)

\* Every switch is registered as the last call that speaks of it has left it,
\* and an option of TLS or of TCP keepalives speaks of theirs ("Setting this
\* will enable SSL for the connection as a side effect"); the flag of the
\* keepalives is there exactly if one of their options was set.
LastWordOnSwitches ==
  host # Unset /\ host.by = "builder" =>
    /\ "use_ssl" \in host.config.mask <=> said["use_ssl"] = TRUE
    /\ "grpc" \in host.config.mask <=> said["grpc"] = TRUE
    /\ "pool" \in host.config.mask <=> said["pool"] = FALSE
    /\ host.config.opts["tcp_keepalive_enable"] = 1 <=> said["tcp_keepalive_enable"] = TRUE
    /\ "keepalive" \in host.config.mask <=> \E o \in Keepalive : said[o] # Unset

\* A Backend, from the registration or from its name, says what the program
\* set when it registered the name, target, times, TLS and its versions, or
\* zero; one goroutine's failed or late registration never changes what the
\* name stands for.
BackendTells ==
  \A g \in Goroutines :
    backend[g] # Unset /\ host.by = "builder" =>
      \A f \in Fields :
        \/ backend[g][f] = Unset
        \/ f = "use_ssl" /\ backend[g][f] = (said[f] = TRUE)
        \/ f = "dynamic" /\ backend[g][f] = TRUE
        \/ f = "target" /\ backend[g][f] = host.by
        \/ f \in Valued /\ said[f] = Unset /\ backend[g][f] = 0
        \/ f \in Valued /\ said[f] # Unset /\ (f \in Timing => ~Meant(said[f]))
        \/ f \in Valued /\ said[f] # Unset /\ backend[g][f] = Wanted(f)
=============================================================================
