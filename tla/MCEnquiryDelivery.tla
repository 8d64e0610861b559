-------------------------- MODULE MCEnquiryDelivery ---------------------------
\* Small instances of EnquiryDelivery for TLC.
EXTENDS EnquiryDelivery

\* Forms that all give one address.
SameAddress == [v \in Visitor |-> CHOOSE e \in Email : TRUE]
===============================================================================
