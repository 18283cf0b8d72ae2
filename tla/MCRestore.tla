----------------------------- MODULE MCRestore -----------------------------
(* One other server: sound archives with and without HTTPS, one of them with *)
(* an AWG 3.1 profile, a broken archive and a bare database.                 *)
EXTENDS Restore

CONSTANTS other, d1, d2

There(tls, awg) ==
  LET theirs == [from |-> other, rev |-> 0]
      base == [clients |-> theirs, settings |-> other, host |-> other, hidden |-> FALSE]
  IN [db |-> base, env |-> [machine |-> other, rest |-> other], tls |-> tls, awg |-> awg,
      site |-> tls, run |-> Of(base)]

MCArchives == {FullArchive(There(d2, other)),
               [FullArchive(There(None, None)) EXCEPT !.sound = FALSE],
               ClientsArchive(There(d1, None)),
               ClientsArchive(There(None, None)),
               [FullArchive(There(None, None)) EXCEPT !.profile = "sqlite"]}
MCNames == {other}
MCDomains == {d1, d2}
MCOwnTls == {None, d1}
=============================================================================
