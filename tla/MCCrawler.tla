----------------------------- MODULE MCCrawler ------------------------------
(***************************************************************************)
(* A small web for Crawler: a page that is reached by a short way and by a *)
(* long one, one that waits in the queue twice, a page too deep, a cycle, a *)
(* redirect, a picture that redirects to itself, a disallowed page, a      *)
(* private one, and a link out of the allowed domain.                      *)
(***************************************************************************)
EXTENDS Crawler

CONSTANTS j1, j2, site, cdn, home, a, b, bb, c, d, secret, intranet, away,
          pic, loop

MCHostOf == [u \in Url |-> IF u = away THEN cdn ELSE site]
MCSeeds == <<home>>
MCScope == Url \ {away, loop}
MCRedirect == [u \in Url |-> CASE u = b -> bb [] u = loop -> loop [] OTHER -> None]
MCLinks == [u \in Url |-> CASE u = home -> <<a, b, away, pic>>
                            [] u = a    -> <<secret, intranet, c>>
                            [] u = bb   -> <<a, c>>
                            [] u = c    -> <<home, d>>
                            [] OTHER    -> <<>>]
MCMedia == [u \in Url |-> IF u = a THEN <<pic, loop>> ELSE <<>>]
MCMaxPages == [j \in Job |-> IF j = j1 THEN 5 ELSE 1]
MCMaxDepth == [j \in Job |-> IF j = j1 THEN 2 ELSE 1]
=============================================================================
