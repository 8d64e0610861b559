-------------------------- MODULE MCSocialAdaptation --------------------------
\* A small instance of SocialAdaptation for TLC, with workers as model values.
EXTENDS SocialAdaptation
===============================================================================
