----------------------------- MODULE MCAuditChain -----------------------------
EXTENDS AuditChain

CONSTANTS day, gate, a, b, forged
==============================================================================
