--------------------------- MODULE MCLiveViewport ---------------------------
\* Three runs of the effect: an answer of the first can come back during the
\* third, and the camera can go offline and come back in between.
EXTENDS LiveViewport
=============================================================================
