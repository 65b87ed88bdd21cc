---------------------------- MODULE MCPaperwork ----------------------------
EXTENDS Paperwork
=============================================================================
