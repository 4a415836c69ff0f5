----------------------------- MODULE MCEvidence -----------------------------
(* Two authorities under one root, one of them over an intermediate and with *)
(* a certificate that expires, and the answers each check of theirs is for.  *)
EXTENDS Evidence

Root == [subject |-> "root", issuer |-> "root", key |-> "rk", by |-> "rk",
         from |-> 0, to |-> 9, eku |-> FALSE]

Intermediate == [Root EXCEPT !.subject = "mid", !.key = "mk"]

Direct == [Root EXCEPT !.subject = "tsa", !.key = "tk", !.eku = TRUE, !.to = 0]

Below == [Direct EXCEPT !.subject = "tsa2", !.issuer = "mid", !.by = "mk", !.to = 9]

Stranger == [Direct EXCEPT !.issuer = "other", !.by = "ok"]

Answer(certs) ==
    [status |-> "granted", ours |-> TRUE, nonce |-> "ours", certs |-> certs, cms |-> TRUE]

MCAuthorities ==
    {Nothing, Answer(<<Direct>>), Answer(<<Below, Intermediate>>), Answer(<<Below>>),
     Answer(<<Stranger>>), Answer(<<>>), Answer(<<[Direct EXCEPT !.eku = FALSE]>>),
     [Answer(<<Direct>>) EXCEPT !.status = "rejection"],
     [Answer(<<Direct>>) EXCEPT !.ours = FALSE],
     [Answer(<<Direct>>) EXCEPT !.nonce = "other"],
     [Answer(<<Direct>>) EXCEPT !.cms = FALSE]}

Plain == [urls |-> 0, required |-> FALSE, roots |-> <<>>, dtrack |-> FALSE]

MCSites ==
    {Plain, [Plain EXCEPT !.dtrack = TRUE], [Plain EXCEPT !.urls = 1],
     [Plain EXCEPT !.urls = 2, !.roots = <<Root>>],
     [Plain EXCEPT !.urls = 1, !.roots = <<Root>>, !.required = TRUE]}
=============================================================================
