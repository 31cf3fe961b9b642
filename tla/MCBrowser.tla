----------------------------- MODULE MCBrowser -----------------------------
\* Constants of the runs of Browser: a page with an image, a page without,
\* and a local page.
EXTENDS Browser, TLC

CONSTANTS a, b, picture, local

MCHttpPages  == {a, b}
MCLocalPages == {local}
MCImages     == a :> <<picture>> @@ b :> <<>>
=============================================================================
