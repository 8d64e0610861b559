-------------------------- MODULE MCCampaignPipeline --------------------------
\* A small instance of CampaignPipeline for TLC.
EXTENDS CampaignPipeline

\* A campaign that has yet to be created, one whose Swedish copy is missing, and
\* a complete one, found without runs.
Copied(languages) == {c \in Imported : Written(c.copy) = languages /\ (c.prompts <=> c.stage = "complete")}
Some == {NoCampaign} \cup {c \in Copied({"en"}) : c.stage = "copy"}
                    \cup {c \in Copied(Language) : c.stage = "complete"}
===============================================================================
