-------------------------- MODULE MC_SandboxSessions ---------------------------
EXTENDS SandboxSessions

CONSTANTS a, h

NoPolicy  == << >>
Allowlist == [network |-> [mode |-> "allowlist", allowlist |-> {h}]]

Request(kind, id, policy) == [kind |-> kind, id |-> id, policy |-> policy]

\* One id, in allowlist mode, where the network's name is taken once.
AllowlistRequests == {Request("create", a, Allowlist), Request("run", a, Allowlist),
                      Request("exec", a, NoPolicy), Request("destroy", a, NoPolicy)}

\* One id, with the default policy: no network.
DefaultRequests == {Request("create", a, NoPolicy), Request("run", a, NoPolicy)}

Symmetry == Permutations(Calls)
=============================================================================
