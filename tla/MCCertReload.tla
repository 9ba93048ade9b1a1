----------------------------- MODULE MCCertReload -----------------------------
(* Small instances of CertReload. *)
EXTENDS CertReload

TwoDomains == <<"d1", "d2">>
OneDomain == <<"d1">>
(* All but the key of d2, which is kept outside certs/. *)
AllButOne == (Domains \X Files) \ {<<"d2", "key">>}
MCVersions == {"v1", "v2"}
=============================================================================
