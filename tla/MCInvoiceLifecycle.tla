-------------------------- MODULE MCInvoiceLifecycle --------------------------
(* InvoiceLifecycle on small sets of invoices and lookups. *)
EXTENDS InvoiceLifecycle, TLC
=============================================================================
