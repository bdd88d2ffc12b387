------------------------------ MODULE MCStartup ------------------------------
(* Small instances of Startup for TLC. *)
EXTENDS Startup

\* The second device has a channel that the first lacks.
MCChannels == <<{"common"}, {"common", "own"}, {}>>

\* Two devices and three announcements; devices of which one has both a
\* hostname and a device, or none, or one that is not allowed.
MCFiles ==
    {[connections |-> <<{"hostname"}, {"device"}>>,
      allowed |-> {"serial", "tcp"},
      announcements |-> <<"own", "common", "common">>]}
        \union
    {[connections |-> <<{"device", "hostname"}, c, {"hostname"}>>,
      allowed |-> k,
      announcements |-> <<"common">>] : c \in SUBSET {"hostname", "device"}, k \in SUBSET Kinds}
=============================================================================
