---------------------------- MODULE MCSwapchain ----------------------------
(* Instantiates Swapchain for TLC with a chain of model-value swapchains.  *)
EXTENDS Swapchain

CONSTANTS s1, s2, s3

MCChain1 == <<s1>>
MCChain2 == <<s1, s2>>
MCChain3 == <<s1, s2, s3>>

=============================================================================
