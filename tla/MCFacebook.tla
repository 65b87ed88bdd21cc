------------------------------ MODULE MCFacebook ------------------------------
EXTENDS Facebook
===============================================================================
