------------------------------ MODULE MCPromotion ------------------------------
(***************************************************************************)
(* Promotion on a small instance.                                          *)
(***************************************************************************)
EXTENDS Promotion

\* The five checks are alike: one stands for them.
MCChecks == {"Tests"}

\* The runtime stands for what is released and not promoted.
MCReleases == {"Release Images", "Release sklearn Runtime"}
================================================================================
