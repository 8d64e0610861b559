-------------------------- MODULE MCProviderEffects ---------------------------
\* A small instance of ProviderEffects for TLC, with workers as model values.
EXTENDS ProviderEffects
===============================================================================
